---- MODULE Spec2Model ----
(***************************************************************************)
(* Model of the Investor Operating System Agent: the promotion reconciler  *)
(* SheetsWriter (app/writers/sheets_writer.py) with the configuration      *)
(* defaults of app/config.py, the batch runner (app/server.py over         *)
(* app/main.py), one evaluation end to end (main.py), InvestmentScorer     *)
(* (app/scoring.py), MetricsCalculator (app/metrics.py), GCSStore          *)
(* (app/storage/gcs_store.py) and write() calls of two processes.  Each    *)
(* component has its own specification; the variables of the other         *)
(* components stay at their idle values.                                   *)
(*                                                                         *)
(* Strings that the code trims and upper-cases (tickers, column A cells)   *)
(* are tuples of one-character strings, so that strip() and upper() are    *)
(* computed.  Python's None is the value None in numeric fields and the    *)
(* tuple NoTicker in ticker fields, NoFlags in list fields.                *)
(***************************************************************************)
EXTENDS Integers, Sequences, FiniteSets, TLC

VARIABLES
    cfg,        \* the writer's configuration (SheetsWriter.__init__)
    tabs,       \* worksheets that exist in the spreadsheet
    header,     \* TRUE when row 1 of the promotion-log tab holds the header
    colA,       \* dashboard column A, per row of the block
    dash,       \* dashboard columns E-J, per row of the block
    log,        \* rows appended to the promotion-log tab
    clock,      \* wall clock: number of write() calls made so far
    last,       \* what the most recent write() call did
    gin,        \* input of the most recent gate evaluation
    gout,       \* its result
    srv,        \* the /run handler of server.py: request, runner outcomes,
                \* response
    sco,        \* InvestmentScorer: the metrics scored and the score record
    met,        \* MetricsCalculator: the bundle and the metrics computed
    gcs,        \* GCSStore: its fields, the objects uploaded, the last call
    runs        \* write() calls of separate processes: position and locals

vars == <<cfg, tabs, header, colA, dash, log, clock, last, gin, gout,
          srv, sco, met, gcs, runs>>

----------------------------------------------------------------------------
(* Bounds *)

BlockSize == 2      \* rows in the dashboard block
MaxCalls == 2       \* write() calls per behaviour
MaxBatch == 2       \* tickers in one /run request
MaxStatements == 2  \* statements per sequence of a company bundle

----------------------------------------------------------------------------
(* Python values *)

None == -9999

NoTicker == <<"<None>">>

NoFlags == <<"<no list>">>

Truthy(v) == v # None /\ v # 0

\* Python's  a or b  on optional numbers
PyOr(a, b) == IF Truthy(a) THEN a ELSE b

----------------------------------------------------------------------------
(* Configuration (config.py) *)

BlockStart == 2
BlockEnd == BlockStart + BlockSize - 1
BlockRows == BlockStart..BlockEnd

PromoteScoreThreshold == 75
HighPriorityThreshold == 85
MoatGateThreshold == 8
MaxRiskFlagCount == 0
MaxNetDebtToEbitda == 4

DashboardTab == "Dashboard"
PromoLogTab == "Promotion Log"

DefaultConfig ==
    [ min_fcf_positive |-> TRUE,
      roic_gate_above_sector_median |-> TRUE,
      require_thesis_not_broken |-> TRUE ]

Configs ==
    [ min_fcf_positive : BOOLEAN,
      roic_gate_above_sector_median : BOOLEAN,
      require_thesis_not_broken : BOOLEAN ]

----------------------------------------------------------------------------
(* _normalize_ticker: str(raw).strip().upper(), "" for None *)

UpperChar(c) ==
    CASE c = "a" -> "A"
      [] c = "b" -> "B"
      [] c = "t" -> "T"
      [] c = "i" -> "I"
      [] c = "c" -> "C"
      [] c = "k" -> "K"
      [] c = "e" -> "E"
      [] c = "r" -> "R"
      [] OTHER -> c

Upper(s) == [i \in 1..Len(s) |-> UpperChar(s[i])]

IsSpace(c) == c = " "

Strip(s) ==
    LET keep == {i \in 1..Len(s) : ~IsSpace(s[i])}
    IN  IF keep = {} THEN <<>>
        ELSE LET lo == CHOOSE i \in keep : \A j \in keep : i <= j
                 hi == CHOOSE i \in keep : \A j \in keep : j <= i
             IN  SubSeq(s, lo, hi)

NormalizeTicker(raw) == IF raw = NoTicker THEN <<>> ELSE Upper(Strip(raw))

HeaderToken == <<"T", "I", "C", "K", "E", "R">>

----------------------------------------------------------------------------
(* _should_promote *)

JoinFlags(flags) ==
    CASE flags = <<>> -> ""
      [] flags = <<"f1">> -> "f1"
      [] flags = <<"f1", "f2">> -> "f1,f2"
      [] OTHER -> "?"

ReasonScore == "Total score below 75"
ReasonBusiness == "Business quality gate failed (no strong moat/FCF/ROIC)"
ReasonThesis == "Thesis broken flag true"
ReasonRisk(flags) ==
    CASE JoinFlags(flags) = "f1" -> "Risk flags present: f1"
      [] JoinFlags(flags) = "f1,f2" -> "Risk flags present: f1,f2"
      [] OTHER -> "Risk flags present: "
ReasonLeverage == "Net debt/EBITDA too high"
ReasonPassed == "Passed: score, business gate, risk gate"

\* total_score = score.get("total"), falling back to "total_score" when None
GateTotal(r) == IF r.total # None THEN r.total ELSE r.total_score

ScoreRulePass(r) ==
    GateTotal(r) # None /\ GateTotal(r) >= PromoteScoreThreshold

\* roic = metrics.get("roic") or metrics.get("profitability", {}).get("roic")
GateRoic(r) == PyOr(r.roic, r.prof_roic)

BusinessPass(c, r) ==
    \/ r.moat_score # None /\ r.moat_score >= MoatGateThreshold
    \/ c.min_fcf_positive /\ r.fcf # None /\ r.fcf > 0
    \/ c.roic_gate_above_sector_median /\ GateRoic(r) # None
         /\ r.roic_above_sector_median

ThesisRulePass(c, r) == ~(c.require_thesis_not_broken /\ r.thesis_broken)

\* risk_flags = score.get("risk_flags", []) or []
GateRiskFlags(r) == IF r.risk_flags = NoFlags THEN <<>> ELSE r.risk_flags

RiskRulePass(r) == Len(GateRiskFlags(r)) <= MaxRiskFlagCount

\* metrics nd/e  or  quality nd/e  or  quality d/e
GateLeverage(r) == PyOr(PyOr(r.net_debt_to_ebitda, r.q_net_debt_to_ebitda),
                        r.q_debt_to_ebitda)

LeverageRulePass(r) ==
    ~(GateLeverage(r) # None /\ GateLeverage(r) > MaxNetDebtToEbitda)

\* variant: the thesis flag is tested before the score
ShouldPromote_ThesisFirst(c, r) ==
    IF ~ThesisRulePass(c, r)
      THEN [promote |-> FALSE, reason |-> ReasonThesis]
    ELSE IF ~ScoreRulePass(r)
      THEN [promote |-> FALSE, reason |-> ReasonScore]
    ELSE IF ~BusinessPass(c, r)
      THEN [promote |-> FALSE, reason |-> ReasonBusiness]
    ELSE IF ~RiskRulePass(r)
      THEN [promote |-> FALSE, reason |-> ReasonRisk(GateRiskFlags(r))]
    ELSE IF ~LeverageRulePass(r)
      THEN [promote |-> FALSE, reason |-> ReasonLeverage]
    ELSE [promote |-> TRUE, reason |-> ReasonPassed]

ShouldPromote(c, r) ==
    IF ~ScoreRulePass(r)
      THEN [promote |-> FALSE, reason |-> ReasonScore]
    ELSE IF ~BusinessPass(c, r)
      THEN [promote |-> FALSE, reason |-> ReasonBusiness]
    ELSE IF ~ThesisRulePass(c, r)
      THEN [promote |-> FALSE, reason |-> ReasonThesis]
    ELSE IF ~RiskRulePass(r)
      THEN [promote |-> FALSE, reason |-> ReasonRisk(GateRiskFlags(r))]
    ELSE IF ~LeverageRulePass(r)
      THEN [promote |-> FALSE, reason |-> ReasonLeverage]
    ELSE [promote |-> TRUE, reason |-> ReasonPassed]

----------------------------------------------------------------------------
(* The ledger store as the writer sees it, and the trace of one call.      *)
(* A world is the store plus  ops  (the Sheets API requests issued, in     *)
(* order),  emitted  (the rows built by _log_promotion_event, persisted or *)
(* not) and  lines  (the DRY_RUN lines written to the process logger).     *)
(* fuel  is the number of API requests the store still serves before one   *)
(* raises (None: it never does);  raised  names the request that raised,   *)
(* after which the call does nothing more: write() catches no exception.   *)

EmptyCell == <<>>

Blank(cell) == NormalizeTicker(cell) = <<>>

EmptyRow == [price |-> None, year_high |-> None, drawdown |-> None,
             score |-> None, rec |-> "", ts |-> None]

World(t, h, a, d, l) ==
    [tabs |-> t, header |-> h, colA |-> a, dash |-> d, log |-> l,
     ops |-> <<>>, emitted |-> <<>>, lines |-> <<>>,
     fuel |-> None, raised |-> ""]

WithFuel(w, n) == [w EXCEPT !.fuel = n]

\* one request of the Sheets client (.execute()):  after  is the world once
\* the request has been served
Request(w, op, after) ==
    IF w.raised # "" THEN w
    ELSE IF w.fuel = 0 THEN [w EXCEPT !.raised = op]
    ELSE [after EXCEPT !.ops = Append(@, op),
                       !.fuel = IF @ = None THEN None ELSE @ - 1]

StoreOf(w) == [tabs |-> w.tabs, header |-> w.header, colA |-> w.colA,
               dash |-> w.dash, log |-> w.log]

\* _ensure_tab: spreadsheets().get, then addSheet when the title is missing
EnsureTab(w, tab) ==
    LET w1 == Request(w, "get", w)
    IN  IF tab \in w1.tabs THEN w1
        ELSE Request(w1, "addSheet", [w1 EXCEPT !.tabs = @ \cup {tab}])

\* _ensure_promotion_log_tab: the header row is written on every call
EnsurePromotionLogTab(w) ==
    LET w1 == EnsureTab(w, PromoLogTab)
    IN  Request(w1, "updateHeader", [w1 EXCEPT !.header = TRUE])

\* _read_dashboard_column_a: values.get of A{start}:A{end}; the API omits
\* trailing empty rows, and "values" is absent when every row is empty
ReadDashboardColumnA(a) ==
    LET used == {i \in BlockRows : a[i] # EmptyCell}
        n == IF used = {} THEN 0
             ELSE (CHOOSE i \in used : \A j \in used : j <= i) - BlockStart + 1
    IN  [k \in 1..n |-> a[BlockStart + k - 1]]

\* variant: the cells of column A are compared as typed
BuildTickerRowMap_RawCells(rows) ==
    LET key(k) == rows[k]
        keys == {key(k) : k \in 1..Len(rows)} \ {<<>>, HeaderToken}
    IN  [t \in keys |->
            LET ks == {k \in 1..Len(rows) : key(k) = t}
            IN  BlockStart + (CHOOSE k \in ks : \A j \in ks : j <= k) - 1]

\* variant: the header word is mapped like a ticker
BuildTickerRowMap_KeepsHeader(rows) ==
    LET key(k) == NormalizeTicker(rows[k])
        keys == {key(k) : k \in 1..Len(rows)} \ {<<>>}
    IN  [t \in keys |->
            LET ks == {k \in 1..Len(rows) : key(k) = t}
            IN  BlockStart + (CHOOSE k \in ks : \A j \in ks : j <= k) - 1]

\* _build_ticker_row_map: later rows overwrite earlier ones
BuildTickerRowMap(rows) ==
    LET key(k) == NormalizeTicker(rows[k])
        keys == {key(k) : k \in 1..Len(rows)} \ {<<>>, HeaderToken}
    IN  [t \in keys |->
            LET ks == {k \in 1..Len(rows) : key(k) = t}
            IN  BlockStart + (CHOOSE k \in ks : \A j \in ks : j <= k) - 1]

\* variant: falls back to the first row of the block when none is free
FindFirstEmptyRow_DefaultsToStart(rows) ==
    LET free == {k \in 1..Len(rows) :
                    /\ \A j \in 1..k : BlockStart + j - 1 <= BlockEnd
                    /\ Blank(rows[k])}
    IN  IF free = {} THEN BlockStart
        ELSE BlockStart + (CHOOSE k \in free : \A j \in free : k <= j) - 1

\* _find_first_empty_row: scans only the rows that were returned
FindFirstEmptyRow(rows) ==
    LET free == {k \in 1..Len(rows) :
                    /\ \A j \in 1..k : BlockStart + j - 1 <= BlockEnd
                    /\ Blank(rows[k])}
    IN  IF free = {} THEN None
        ELSE BlockStart + (CHOOSE k \in free : \A j \in free : k <= j) - 1

\* _build_dashboard_row; drawdown is kept in hundredths of a percent
BuildDashboardRow(r, now) ==
    LET price == PyOr(r.current_price, r.m_price)
        year_high == PyOr(r.year_high, r.m_year_high)
        dd == IF r.m_drawdown_pct = None /\ price # None
                  /\ Truthy(year_high) /\ year_high > 0
                THEN ((price - year_high) * 10000) \div year_high
              ELSE IF r.m_drawdown_pct # None THEN r.m_drawdown_pct * 100
              ELSE None
    IN  [price |-> price, year_high |-> year_high, drawdown |-> dd,
         score |-> PyOr(r.total, r.total_score),
         rec |-> r.recommendation,
         ts |-> IF r.last_updated # None THEN r.last_updated ELSE now]

\* _append_new_ticker_row (columns B-D, written as "", are not modelled)
AppendNewTickerRow(w, row_index, ticker, dry_run) ==
    IF w.raised # "" THEN w
    ELSE IF dry_run
      THEN [w EXCEPT !.lines = Append(@, "DRY_RUN append ticker row")]
      ELSE Request(w, "updateA", [w EXCEPT !.colA[row_index] = ticker])

\* variant: the update rewrites the ticker cell of the row as well
UpdateDashboardAiColumns_WritesTicker(w, row_index, r, dry_run, now) ==
    IF w.raised # "" THEN w
    ELSE IF dry_run
      THEN [w EXCEPT !.lines =
                Append(@, "DRY_RUN update dashboard AI columns")]
      ELSE Request(w, "updateEJ",
                   [w EXCEPT !.dash[row_index] = BuildDashboardRow(r, now),
                             !.colA[row_index] = NormalizeTicker(r.ticker)])

\* _update_dashboard_ai_columns
UpdateDashboardAiColumns(w, row_index, r, dry_run, now) ==
    IF w.raised # "" THEN w
    ELSE IF dry_run
      THEN [w EXCEPT !.lines =
                Append(@, "DRY_RUN update dashboard AI columns")]
      ELSE Request(w, "updateEJ",
                   [w EXCEPT !.dash[row_index] = BuildDashboardRow(r, now)])

\* variant: a dry run builds no log row
LogPromotionEvent_SilentDryRun(w, r, action, reason, run_id, dry_run, now) ==
    LET row == [ts |-> now, ticker |-> r.ticker,
                total |-> PyOr(r.total_score, r.total),
                rec |-> r.recommendation, action |-> action,
                reason |-> reason, run_id |-> run_id]
    IN  IF w.raised # "" THEN w
        ELSE IF dry_run
          THEN w
          ELSE Request([w EXCEPT !.emitted = Append(@, row)], "appendLog",
                       [w EXCEPT !.emitted = Append(@, row),
                                 !.log = Append(@, row)])

\* _log_promotion_event
LogPromotionEvent(w, r, action, reason, run_id, dry_run, now) ==
    LET row == [ts |-> now, ticker |-> r.ticker,
                total |-> PyOr(r.total_score, r.total),
                rec |-> r.recommendation, action |-> action,
                reason |-> reason, run_id |-> run_id]
    IN  IF w.raised # "" THEN w
        ELSE IF dry_run
          THEN [w EXCEPT !.emitted = Append(@, row),
                         !.lines = Append(@, "DRY_RUN promotion log append")]
          ELSE Request([w EXCEPT !.emitted = Append(@, row)], "appendLog",
                       [w EXCEPT !.emitted = Append(@, row),
                                 !.log = Append(@, row)])

NoRunId == <<>>

Uuid4(now) == <<"uuid4", now>>

Done(w, outcome, row, reason, gated) ==
    [w |-> w, outcome |-> outcome, row |-> row, reason |-> reason,
     gated |-> gated]

\* what the caller of write() sees: the returned status, or the exception of
\* the request that raised
Returned(res) ==
    IF res.w.raised = "" THEN res
    ELSE Done(res.w, "RAISED", None, "", FALSE)

ReasonNoCapacity == "Dashboard block full"

\* variant: escalation compares with the promote threshold
PromotionAction_PromoteThreshold(r) ==
    LET total_score == PyOr(r.total, r.total_score)
    IN  IF total_score # None /\ total_score >= PromoteScoreThreshold
          THEN "HIGH_PRIORITY" ELSE "PROMOTED"

\* write(): the action logged for an appended ticker
PromotionAction(r) ==
    LET total_score == PyOr(r.total, r.total_score)
    IN  IF total_score # None /\ total_score >= HighPriorityThreshold
          THEN "HIGH_PRIORITY" ELSE "PROMOTED"

\* variant: the gate result is tested before allow_append
Reconcile_RejectFirst(c, w, dashboard_rows, ticker, r, allow_append, dry_run, run_id, now) ==
    LET ticker_map == BuildTickerRowMap(dashboard_rows)
    IN  IF ticker \in DOMAIN ticker_map
          THEN Done(UpdateDashboardAiColumns(w, ticker_map[ticker], r,
                                             dry_run, now),
                    "UPDATED", ticker_map[ticker], "", FALSE)
        ELSE
    LET gate == ShouldPromote(c, r)
        empty_row == FindFirstEmptyRow(dashboard_rows)
    IN  IF ~gate.promote
          THEN Done(LogPromotionEvent(w, r, "REJECTED", gate.reason, run_id,
                                      dry_run, now),
                    "REJECTED", None, gate.reason, TRUE)
        ELSE IF ~allow_append
          THEN Done(LogPromotionEvent(w, r, "NOT_APPENDED_ALLOW_APPEND_FALSE",
                                      gate.reason, run_id, dry_run, now),
                    "NOT_APPENDED_ALLOW_APPEND_FALSE", None, gate.reason, TRUE)
        ELSE IF empty_row = None
          THEN Done(LogPromotionEvent(w, r, "FAILED_NO_CAPACITY",
                                      ReasonNoCapacity, run_id, dry_run, now),
                    "FAILED_NO_CAPACITY", None, ReasonNoCapacity, TRUE)
        ELSE
          Done(LogPromotionEvent(
                 UpdateDashboardAiColumns(
                   AppendNewTickerRow(w, empty_row, ticker, dry_run),
                   empty_row, r, dry_run, now),
                 r, PromotionAction(r), gate.reason, run_id, dry_run, now),
               PromotionAction(r), empty_row, gate.reason, TRUE)

\* variant: the update in place is logged as well
Reconcile_LogsUpdate(c, w, dashboard_rows, ticker, r, allow_append, dry_run, run_id, now) ==
    LET ticker_map == BuildTickerRowMap(dashboard_rows)
    IN  IF ticker \in DOMAIN ticker_map
          THEN Done(LogPromotionEvent(
                      UpdateDashboardAiColumns(w, ticker_map[ticker], r,
                                               dry_run, now),
                      r, "UPDATED", "", run_id, dry_run, now),
                    "UPDATED", ticker_map[ticker], "", FALSE)
        ELSE
    LET gate == ShouldPromote(c, r)
        empty_row == FindFirstEmptyRow(dashboard_rows)
    IN  IF ~allow_append
          THEN Done(LogPromotionEvent(w, r, "NOT_APPENDED_ALLOW_APPEND_FALSE",
                                      gate.reason, run_id, dry_run, now),
                    "NOT_APPENDED_ALLOW_APPEND_FALSE", None, gate.reason, TRUE)
        ELSE IF ~gate.promote
          THEN Done(LogPromotionEvent(w, r, "REJECTED", gate.reason, run_id,
                                      dry_run, now),
                    "REJECTED", None, gate.reason, TRUE)
        ELSE IF empty_row = None
          THEN Done(LogPromotionEvent(w, r, "FAILED_NO_CAPACITY",
                                      ReasonNoCapacity, run_id, dry_run, now),
                    "FAILED_NO_CAPACITY", None, ReasonNoCapacity, TRUE)
        ELSE
          Done(LogPromotionEvent(
                 UpdateDashboardAiColumns(
                   AppendNewTickerRow(w, empty_row, ticker, dry_run),
                   empty_row, r, dry_run, now),
                 r, PromotionAction(r), gate.reason, run_id, dry_run, now),
               PromotionAction(r), empty_row, gate.reason, TRUE)

\* variant: a promotion is logged before its row is written
Reconcile_LogsFirst(c, w, dashboard_rows, ticker, r, allow_append, dry_run, run_id, now) ==
    LET ticker_map == BuildTickerRowMap(dashboard_rows)
    IN  IF ticker \in DOMAIN ticker_map
          THEN Done(UpdateDashboardAiColumns(w, ticker_map[ticker], r,
                                             dry_run, now),
                    "UPDATED", ticker_map[ticker], "", FALSE)
        ELSE
    LET gate == ShouldPromote(c, r)
        empty_row == FindFirstEmptyRow(dashboard_rows)
    IN  IF ~allow_append
          THEN Done(LogPromotionEvent(w, r, "NOT_APPENDED_ALLOW_APPEND_FALSE",
                                      gate.reason, run_id, dry_run, now),
                    "NOT_APPENDED_ALLOW_APPEND_FALSE", None, gate.reason, TRUE)
        ELSE IF ~gate.promote
          THEN Done(LogPromotionEvent(w, r, "REJECTED", gate.reason, run_id,
                                      dry_run, now),
                    "REJECTED", None, gate.reason, TRUE)
        ELSE IF empty_row = None
          THEN Done(LogPromotionEvent(w, r, "FAILED_NO_CAPACITY",
                                      ReasonNoCapacity, run_id, dry_run, now),
                    "FAILED_NO_CAPACITY", None, ReasonNoCapacity, TRUE)
        ELSE
          Done(UpdateDashboardAiColumns(
                 AppendNewTickerRow(
                   LogPromotionEvent(w, r, PromotionAction(r), gate.reason,
                                     run_id, dry_run, now),
                   empty_row, ticker, dry_run),
                 empty_row, r, dry_run, now),
               PromotionAction(r), empty_row, gate.reason, TRUE)

\* write(), from the ticker map on: update in place, or gate and append
Reconcile(c, w, dashboard_rows, ticker, r, allow_append, dry_run, run_id, now) ==
    LET ticker_map == BuildTickerRowMap(dashboard_rows)
    IN  IF ticker \in DOMAIN ticker_map
          THEN Done(UpdateDashboardAiColumns(w, ticker_map[ticker], r,
                                             dry_run, now),
                    "UPDATED", ticker_map[ticker], "", FALSE)
        ELSE
    LET gate == ShouldPromote(c, r)
        empty_row == FindFirstEmptyRow(dashboard_rows)
    IN  IF ~allow_append
          THEN Done(LogPromotionEvent(w, r, "NOT_APPENDED_ALLOW_APPEND_FALSE",
                                      gate.reason, run_id, dry_run, now),
                    "NOT_APPENDED_ALLOW_APPEND_FALSE", None, gate.reason, TRUE)
        ELSE IF ~gate.promote
          THEN Done(LogPromotionEvent(w, r, "REJECTED", gate.reason, run_id,
                                      dry_run, now),
                    "REJECTED", None, gate.reason, TRUE)
        ELSE IF empty_row = None
          THEN Done(LogPromotionEvent(w, r, "FAILED_NO_CAPACITY",
                                      ReasonNoCapacity, run_id, dry_run, now),
                    "FAILED_NO_CAPACITY", None, ReasonNoCapacity, TRUE)
        ELSE
          Done(LogPromotionEvent(
                 UpdateDashboardAiColumns(
                   AppendNewTickerRow(w, empty_row, ticker, dry_run),
                   empty_row, r, dry_run, now),
                 r, PromotionAction(r), gate.reason, run_id, dry_run, now),
               PromotionAction(r), empty_row, gate.reason, TRUE)

ReasonNoTicker == "Result payload missing ticker"

\* variant: a dry run does not read column A
Write_DryRunSkipsRead(c, w0, r, allow_append, dry_run, run_id_in, now) ==
    LET ticker == NormalizeTicker(r.ticker)
    IN  IF ticker = <<>>
          THEN Done(w0, "ERROR", None, ReasonNoTicker, FALSE)
        ELSE
    LET run_id == IF run_id_in = NoRunId THEN Uuid4(now) ELSE run_id_in
        w2 == EnsurePromotionLogTab(EnsureTab(w0, DashboardTab))
        dashboard_rows == IF dry_run THEN <<>>
                          ELSE ReadDashboardColumnA(w2.colA)
        w3 == Request(w2, "readA", w2)
    IN  Returned(Reconcile(c, w3, dashboard_rows, ticker, r, allow_append,
                           dry_run, run_id, now))

\* variant: the tabs are ensured before the ticker is tested
Write_EnsuresTabsFirst(c, w0, r, allow_append, dry_run, run_id_in, now) ==
    LET ticker == NormalizeTicker(r.ticker)
        w2 == EnsurePromotionLogTab(EnsureTab(w0, DashboardTab))
    IN  IF ticker = <<>>
          THEN Returned(Done(w2, "ERROR", None, ReasonNoTicker, FALSE))
        ELSE
    LET run_id == IF run_id_in = NoRunId THEN Uuid4(now) ELSE run_id_in
        dashboard_rows == ReadDashboardColumnA(w2.colA)
        w3 == Request(w2, "readA", w2)
    IN  Returned(Reconcile(c, w3, dashboard_rows, ticker, r, allow_append,
                           dry_run, run_id, now))

\* write(results, allow_append, dry_run, run_id), on an initialised writer:
\* normalize, fail fast, ensure the tabs, read column A, reconcile
Write(c, w0, r, allow_append, dry_run, run_id_in, now) ==
    LET ticker == NormalizeTicker(r.ticker)
    IN  IF ticker = <<>>
          THEN Done(w0, "ERROR", None, ReasonNoTicker, FALSE)
        ELSE
    LET run_id == IF run_id_in = NoRunId THEN Uuid4(now) ELSE run_id_in
        w2 == EnsurePromotionLogTab(EnsureTab(w0, DashboardTab))
        dashboard_rows == ReadDashboardColumnA(w2.colA)
        w3 == Request(w2, "readA", w2)
    IN  Returned(Reconcile(c, w3, dashboard_rows, ticker, r, allow_append,
                           dry_run, run_id, now))

----------------------------------------------------------------------------
(* Inputs *)

\* score and metrics fields read by the gate
GateInputs ==
    [ total : {None, 0, 74, 75, 90},
      total_score : {None, 80},
      moat_score : {None, 7, 8},
      fcf : {None, 0, 10},
      roic : {None, 0, 12},
      prof_roic : {None, 12},
      roic_above_sector_median : BOOLEAN,
      thesis_broken : BOOLEAN,
      risk_flags : {NoFlags, <<>>, <<"f1">>},
      net_debt_to_ebitda : {None, 0, 5},
      q_net_debt_to_ebitda : {None, 3},
      q_debt_to_ebitda : {None, 5} ]

\* a payload as main() builds it: every group present, nothing supplied
\* from outside the scorer
BasePayload ==
    [ ticker |-> <<"A">>, recommendation |-> "BUY",
      total |-> 80, total_score |-> 80, moat_score |-> 9,
      fcf |-> 10, roic |-> None, prof_roic |-> None,
      roic_above_sector_median |-> FALSE, thesis_broken |-> FALSE,
      risk_flags |-> <<>>,
      net_debt_to_ebitda |-> None, q_net_debt_to_ebitda |-> None,
      q_debt_to_ebitda |-> 1,
      current_price |-> None, year_high |-> None,
      m_price |-> None, m_year_high |-> None, m_drawdown_pct |-> None,
      last_updated |-> None ]

Profiles ==
    { BasePayload,
      [BasePayload EXCEPT !.total = 90, !.total_score = 90,
                          !.recommendation = "STRONG BUY",
                          !.current_price = 90, !.year_high = 100,
                          !.last_updated = 100],
      [BasePayload EXCEPT !.total = 60, !.total_score = 60,
                          !.recommendation = "HOLD"] }

RawTickers == { <<" ", "a">>, <<"B">> }

Payloads == { [p EXCEPT !.ticker = t] : p \in Profiles, t \in RawTickers }

GivenRunId == <<"run", 1>>

\* calls of write(): every payload without a run id, live calls with the
\* scorer's plain payload and a caller's run id, and an empty ticker
Requests ==
    [ results : Payloads, allow_append : BOOLEAN, dry_run : BOOLEAN,
      run_id : {NoRunId} ]
    \cup
    [ results : { [BasePayload EXCEPT !.ticker = t] : t \in RawTickers },
      allow_append : BOOLEAN, dry_run : {FALSE}, run_id : {GivenRunId} ]
    \cup
    [ results : { [BasePayload EXCEPT !.ticker = <<>>] },
      allow_append : {TRUE}, dry_run : BOOLEAN, run_id : {NoRunId} ]

\* what a hand-edited column A holds: nothing, white space, tickers as
\* typed, the header word
InitCells == { EmptyCell, <<" ">>, <<"a", " ">>, <<"B">>,
               <<"T", "i", "c", "k", "e", "r">> }

OldRow == [price |-> 50, year_high |-> 60, drawdown |-> -1666,
           score |-> 77, rec |-> "BUY", ts |-> 0]

\* the ticker rows of a column: normalized, without blanks and the header
TickerRows(a, t) ==
    {i \in BlockRows : NormalizeTicker(a[i]) = t /\ t # <<>> /\ t # HeaderToken}

Unique(a) ==
    \A i, j \in BlockRows :
        TickerRows(a, NormalizeTicker(a[i])) # {}
          /\ NormalizeTicker(a[i]) = NormalizeTicker(a[j]) => i = j

----------------------------------------------------------------------------
(* State machine of the writer *)

\* the parts of the program that a specification leaves untouched
NoRun == [phase |-> "idle"]

NoScore == [phase |-> "idle"]

NoMetrics == [phase |-> "idle"]

NoStore == [phase |-> "idle"]

\* the processes that call write() on the same spreadsheet
Procs == {1, 2}

IdleRun == [pc |-> "idle"]

NoRuns == [proc |-> [p \in Procs |-> IdleRun], overlapped |-> FALSE]

NoGate == [promote |-> FALSE, reason |-> "<not evaluated>"]

NoCall ==
    [ outcome |-> "NONE", results |-> BasePayload, allow_append |-> FALSE,
      dry_run |-> FALSE, run_id |-> NoRunId, row |-> None, reason |-> "",
      gated |-> FALSE, ops |-> <<>>, emitted |-> <<>>, lines |-> <<>>,
      raised |-> "",
      pre |-> [tabs |-> {}, header |-> FALSE,
               colA |-> [i \in BlockRows |-> EmptyCell],
               dash |-> [i \in BlockRows |-> EmptyRow], log |-> <<>>],
      twin |-> [outcome |-> "NONE", row |-> None, reason |-> "",
                tabs |-> {}, header |-> FALSE] ]

Store == [tabs |-> tabs, header |-> header, colA |-> colA, dash |-> dash,
          log |-> log]

StoreInit ==
    /\ tabs \in SUBSET {DashboardTab, PromoLogTab}
    /\ header \in BOOLEAN
    /\ header => PromoLogTab \in tabs
    /\ colA \in [BlockRows -> InitCells]
    /\ Unique(colA)
    /\ DashboardTab \notin tabs => \A i \in BlockRows : colA[i] = EmptyCell
    /\ dash = [i \in BlockRows |->
                 IF TickerRows(colA, NormalizeTicker(colA[i])) # {}
                   THEN OldRow ELSE EmptyRow]
    /\ log = <<>>
    /\ clock = 0
    /\ last = NoCall

Init ==
    /\ cfg = DefaultConfig
    /\ StoreInit
    /\ gin = CHOOSE g \in GateInputs : TRUE
    /\ gout = NoGate
    /\ srv = NoRun /\ sco = NoScore /\ met = NoMetrics
    /\ gcs = NoStore /\ runs = NoRuns

WriteCall ==
    /\ clock < MaxCalls
    /\ \E q \in Requests :
         \E res \in {Write(cfg, World(tabs, header, colA, dash, log),
                            q.results, q.allow_append, q.dry_run, q.run_id,
                            clock + 1)},
            tw \in {Write(cfg, World(tabs, header, colA, dash, log),
                           q.results, q.allow_append, ~q.dry_run, q.run_id,
                           clock + 1)} :
             /\ tabs' = res.w.tabs
             /\ header' = res.w.header
             /\ colA' = res.w.colA
             /\ dash' = res.w.dash
             /\ log' = res.w.log
             /\ clock' = clock + 1
             /\ last' = [ outcome |-> res.outcome, results |-> q.results,
                          allow_append |-> q.allow_append,
                          dry_run |-> q.dry_run,
                          run_id |-> q.run_id, row |-> res.row,
                          reason |-> res.reason, gated |-> res.gated,
                          ops |-> res.w.ops, emitted |-> res.w.emitted,
                          lines |-> res.w.lines,
                          raised |-> res.w.raised,
                          pre |-> Store,
                          twin |-> [outcome |-> tw.outcome, row |-> tw.row,
                                    reason |-> tw.reason,
                                    tabs |-> tw.w.tabs,
                                    header |-> tw.w.header] ]
    /\ UNCHANGED <<cfg, gin, gout, srv, sco, met, gcs, runs>>

Next == WriteCall

Spec == Init /\ [][Next]_vars

----------------------------------------------------------------------------
(* The gate as a pure function of the payload and the configuration *)

InitGate ==
    /\ cfg \in Configs
    /\ gin \in GateInputs
    /\ gout = NoGate
    /\ tabs = {DashboardTab, PromoLogTab}
    /\ header = TRUE
    /\ colA = [i \in BlockRows |-> EmptyCell]
    /\ dash = [i \in BlockRows |-> EmptyRow]
    /\ log = <<>>
    /\ clock = 0
    /\ last = NoCall
    /\ srv = NoRun /\ sco = NoScore /\ met = NoMetrics
    /\ gcs = NoStore /\ runs = NoRuns

EvaluateGate ==
    /\ gout = NoGate
    /\ gout' = ShouldPromote(cfg, gin)
    /\ UNCHANGED <<cfg, tabs, header, colA, dash, log, clock, last, gin,
                   srv, sco, met, gcs, runs>>

NextGate == EvaluateGate

SpecGate == InitGate /\ [][NextGate]_vars

----------------------------------------------------------------------------
(* One write() against a store whose API may raise: the call is served     *)
(* n requests and the next one raises (n = the number of requests of the   *)
(* complete call: none raises).  A cancelled run stops at the same points. *)

EmptyTickerRequests ==
    [ results : { [BasePayload EXCEPT !.ticker = t] :
                    t \in {NoTicker, <<>>, <<" ", " ">>} },
      allow_append : BOOLEAN, dry_run : BOOLEAN, run_id : {NoRunId} ]

WriteCallMayFail ==
    /\ clock = 0
    /\ \E q \in Requests \cup EmptyTickerRequests :
         \E full \in {Write(cfg, World(tabs, header, colA, dash, log),
                             q.results, q.allow_append, q.dry_run, q.run_id,
                             clock + 1)} :
           \E n \in 0..Len(full.w.ops) :
             \E res \in {Write(cfg,
                                WithFuel(World(tabs, header, colA, dash, log), n),
                                q.results, q.allow_append, q.dry_run,
                                q.run_id, clock + 1)} :
               /\ tabs' = res.w.tabs
               /\ header' = res.w.header
               /\ colA' = res.w.colA
               /\ dash' = res.w.dash
               /\ log' = res.w.log
               /\ clock' = clock + 1
               /\ last' = [ outcome |-> res.outcome, results |-> q.results,
                            allow_append |-> q.allow_append,
                            dry_run |-> q.dry_run,
                            run_id |-> q.run_id, row |-> res.row,
                            reason |-> res.reason, gated |-> res.gated,
                            ops |-> res.w.ops, emitted |-> res.w.emitted,
                            lines |-> res.w.lines,
                            raised |-> res.w.raised,
                            pre |-> Store,
                            twin |-> [outcome |-> full.outcome,
                                      row |-> full.row,
                                      reason |-> full.reason,
                                      tabs |-> full.w.tabs,
                                      header |-> full.w.header] ]
    /\ UNCHANGED <<cfg, gin, gout, srv, sco, met, gcs, runs>>

NextFail == WriteCallMayFail

SpecFail == Init /\ [][NextFail]_vars

----------------------------------------------------------------------------
(* The batch runner: POST /run of server.py over main() of main.py *)

writerVars == <<cfg, tabs, header, colA, dash, log, clock, last, gin, gout>>

\* a writer that no specification of the other components touches
WriterIdle ==
    /\ cfg = DefaultConfig
    /\ tabs = {DashboardTab, PromoLogTab}
    /\ header = TRUE
    /\ colA = [i \in BlockRows |-> EmptyCell]
    /\ dash = [i \in BlockRows |-> EmptyRow]
    /\ log = <<>>
    /\ clock = 0
    /\ last = NoCall
    /\ gin = CHOOSE g \in GateInputs : TRUE
    /\ gout = NoGate

NoUri == <<"<None>">>

GsUri == <<"g", "s", ":", "/", "/", "b">>

DriveId == <<"1", "x">>

\* isinstance(artifact_uri, str) and artifact_uri.startswith("gs://")
IsGsUri(u) ==
    /\ u # NoUri
    /\ Len(u) >= 5
    /\ SubSeq(u, 1, 5) = <<"g", "s", ":", "/", "/">>

\* what a runner of the interface of main(ticker, output_format) does for
\* one ticker: it returns a result dictionary (exit_code 1 and the message
\* of the exception it caught, after any storage warning; or exit_code 0,
\* with the artifact of a storage backend or its warning), or an exception
\* leaves it
RunnerOutcomes ==
    { [raised |-> FALSE, msg |-> "", exit_code |-> 0, artifact_uri |-> NoUri,
       errors |-> <<>>],
      [raised |-> FALSE, msg |-> "", exit_code |-> 0, artifact_uri |-> GsUri,
       errors |-> <<>>],
      [raised |-> FALSE, msg |-> "", exit_code |-> 0,
       artifact_uri |-> DriveId, errors |-> <<>>],
      [raised |-> FALSE, msg |-> "", exit_code |-> 0, artifact_uri |-> NoUri,
       errors |-> <<"upload failed">>],
      [raised |-> FALSE, msg |-> "", exit_code |-> 1, artifact_uri |-> NoUri,
       errors |-> <<"fatal">>],
      [raised |-> FALSE, msg |-> "", exit_code |-> 1, artifact_uri |-> NoUri,
       errors |-> <<"upload failed", "fatal">>],
      [raised |-> TRUE, msg |-> "boom", exit_code |-> 1,
       artifact_uri |-> NoUri, errors |-> <<>>] }

OutputFormats == {"sheets", "gcs", "both", "excel"}

\* try: outcome = run_one(t, fmt)  except Exception as e: ...
CaughtOutcome(o) ==
    IF o.raised
      THEN [exit_code |-> 1, artifact_uri |-> NoUri, errors |-> <<o.msg>>]
      ELSE [exit_code |-> o.exit_code, artifact_uri |-> o.artifact_uri,
            errors |-> o.errors]

\* the body of the loop of run() for one ticker
TickerResult(t, fmt, o) ==
    LET outcome == CaughtOutcome(o)
        sheet_ok == fmt \in {"sheets", "both"} /\ outcome.exit_code = 0
        gcs_ok == fmt \in {"gcs", "both"} /\ IsGsUri(outcome.artifact_uri)
        final_code == IF fmt = "sheets" THEN (IF sheet_ok THEN 0 ELSE 1)
                      ELSE IF fmt = "gcs" THEN (IF gcs_ok THEN 0 ELSE 1)
                      ELSE (IF sheet_ok /\ gcs_ok THEN 0 ELSE 1)
    IN  [ ticker |-> Strip(Upper(t)),
          exit_code |-> final_code,
          artifact_uri |-> IF fmt \in {"gcs", "both"} /\ ~gcs_ok THEN NoUri
                           ELSE outcome.artifact_uri,
          error_message |-> IF final_code # 0 /\ outcome.errors # <<>>
                              THEN outcome.errors[1] ELSE "",
          sheet_ok |-> sheet_ok ]

\* variant: an exception of the runner ends the loop
RunLoop_StopOnRaise(tickers, fmt, outcomes) ==
    LET bad == {i \in 1..Len(tickers) : outcomes[i].raised}
        n == IF bad = {} THEN Len(tickers)
             ELSE (CHOOSE i \in bad : \A j \in bad : i <= j) - 1
        res == [i \in 1..n |-> TickerResult(tickers[i], fmt, outcomes[i])]
    IN  [ calls |-> [i \in 1..n |-> Strip(Upper(tickers[i]))],
          results |-> [i \in 1..n |->
                         [ticker |-> res[i].ticker,
                          exit_code |-> res[i].exit_code,
                          artifact_uri |-> res[i].artifact_uri,
                          error_message |-> res[i].error_message]],
          updated |-> Cardinality({i \in 1..n : res[i].sheet_ok}) ]

\* run(): the loop over req.tickers;  calls  are the tickers handed to
\* run_one, in order
RunLoop(tickers, fmt, outcomes) ==
    LET n == Len(tickers)
        res == [i \in 1..n |-> TickerResult(tickers[i], fmt, outcomes[i])]
    IN  [ calls |-> [i \in 1..n |-> Strip(Upper(tickers[i]))],
          results |-> [i \in 1..n |->
                         [ticker |-> res[i].ticker,
                          exit_code |-> res[i].exit_code,
                          artifact_uri |-> res[i].artifact_uri,
                          error_message |-> res[i].error_message]],
          updated |-> Cardinality({i \in 1..n : res[i].sheet_ok}) ]

SeqsUpTo(S, n) == UNION {[1..k -> S] : k \in 0..n}

BatchTickers == { <<"a", " ">>, <<"B">> }

InitBatch ==
    /\ WriterIdle
    /\ srv = NoRun /\ sco = NoScore /\ met = NoMetrics
    /\ gcs = NoStore /\ runs = NoRuns

RunBatch ==
    /\ srv = NoRun
    /\ \E tickers \in SeqsUpTo(BatchTickers, MaxBatch), fmt \in OutputFormats :
         \E outcomes \in [1..Len(tickers) -> RunnerOutcomes] :
           srv' = [ phase |-> "returned", tickers |-> tickers,
                    output_format |-> fmt, outcomes |-> outcomes,
                    response |-> RunLoop(tickers, fmt, outcomes) ]
    /\ UNCHANGED <<writerVars, sco, met, gcs, runs>>

NextBatch == RunBatch

SpecBatch == InitBatch /\ [][NextBatch]_vars

----------------------------------------------------------------------------
(* One evaluation end to end: a /run request for one ticker with output    *)
(* format "sheets" (server.py), main() (main.py) and the write() it makes. *)
(* The data fetch, the metrics and the score are the environment: they     *)
(* fail, or yield one of the payload profiles.                             *)

\* the attributes that Config.__init__ sets
ConfigAttributes ==
    { "fmp_api_key", "gcp_project_id", "gcs_bucket_name",
      "google_credentials_path", "sheets_spreadsheet_id",
      "sheets_worksheet_name", "promotion_log_worksheet_name",
      "dashboard_block_start_row", "dashboard_block_end_row",
      "promote_score_threshold", "high_priority_threshold",
      "moat_gate_threshold", "min_fcf_positive",
      "roic_gate_above_sector_median", "max_risk_flag_count",
      "max_net_debt_to_ebitda", "require_thesis_not_broken",
      "sheets_allow_append", "sheets_dry_run", "drive_folder_id",
      "output_dir", "log_level", "score_threshold_buy",
      "score_threshold_hold" }

\* results["run_id"] = str(uuid4()) of main(): another draw than write()'s
MainRunId(now) == <<"uuid4", now, "main">>

ErrNoAttribute == "'Config' object has no attribute 'output_storage_backend'"

\* where the steps of main() before the write can raise
MainFailures == {"none", "config", "fetch", "calculate"}

MainErrors ==
    [ config |-> "Missing required configuration: FMP_API_KEY",
      fetch |-> "fetch failed",
      calculate |-> "calculate failed",
      write |-> "write failed" ]

\* variant: the missing storage attribute counts as no storage backend
ReadStorageBackend_NoneWhenMissing(attrs) ==
    IF "output_storage_backend" \in attrs THEN "configured" ELSE "none"

\* config.output_storage_backend
ReadStorageBackend(attrs) ==
    IF "output_storage_backend" \in attrs THEN "configured"
    ELSE "AttributeError"

\* the results dictionary of main(): ticker, company_name, metrics, score,
\* recommendation, fetched_at, run_id and no other key
MainResults(profile, ticker) ==
    [profile EXCEPT !.ticker = ticker, !.current_price = None,
                    !.year_high = None, !.last_updated = None]

\* main(ticker, "sheets"):  fails  is the step before the write that raises,
\* profile  what the scorer yields,  w0  the store with its failure budget.
\* The result dictionary, with the trace of the write() where it was made.
Main(c, w0, ticker, fails, profile, now) ==
    LET result == [ ticker |-> ticker, exit_code |-> 1, sheet_url |-> FALSE,
                    artifact_uri |-> NoUri, errors |-> <<>>,
                    wrote |-> FALSE, run_id |-> NoRunId,
                    write |-> Done(w0, "NONE", None, "", FALSE) ]
    IN  IF fails # "none"
          THEN [result EXCEPT !.errors = <<MainErrors[fails]>>]
        ELSE
    LET results == MainResults(profile, ticker)
        res == Write(c, w0, results, FALSE, FALSE, NoRunId, now)
        called == [result EXCEPT !.wrote = TRUE, !.write = res,
                                 !.run_id = MainRunId(now)]
    IN  IF res.outcome \in {"RAISED", "ERROR"}
          THEN [called EXCEPT !.errors = <<MainErrors.write>>]
        ELSE IF ReadStorageBackend(ConfigAttributes) = "AttributeError"
          THEN [called EXCEPT !.sheet_url = TRUE,
                              !.errors = <<ErrNoAttribute>>]
        ELSE [called EXCEPT !.sheet_url = TRUE, !.exit_code = 0]

\* /run requests for one ticker
EvalRequests ==
    [ ticker : RawTickers, allow_append : BOOLEAN, dry_run : BOOLEAN ]

EvaluateCall ==
    /\ clock = 0
    /\ \E req \in EvalRequests, fails \in MainFailures, profile \in Profiles :
         \E full \in {Main(cfg, World(tabs, header, colA, dash, log),
                            Strip(Upper(req.ticker)), fails, profile,
                            clock + 1)} :
           \E n \in 0..Len(full.write.w.ops) :
             \E m \in {Main(cfg,
                              WithFuel(World(tabs, header, colA, dash, log), n),
                              Strip(Upper(req.ticker)), fails, profile,
                              clock + 1)} :
               /\ tabs' = m.write.w.tabs
               /\ header' = m.write.w.header
               /\ colA' = m.write.w.colA
               /\ dash' = m.write.w.dash
               /\ log' = m.write.w.log
               /\ clock' = clock + 1
               /\ last' = IF ~m.wrote THEN last
                          ELSE [ outcome |-> m.write.outcome,
                                 results |-> MainResults(profile, m.ticker),
                                 allow_append |-> FALSE, dry_run |-> FALSE,
                                 run_id |-> NoRunId, row |-> m.write.row,
                                 reason |-> m.write.reason,
                                 gated |-> m.write.gated,
                                 ops |-> m.write.w.ops,
                                 emitted |-> m.write.w.emitted,
                                 lines |-> m.write.w.lines,
                                 raised |-> m.write.w.raised,
                                 pre |-> Store,
                                 twin |-> NoCall.twin ]
               /\ srv' = [ phase |-> "evaluated", request |-> req,
                           fails |-> fails,
                           main |-> [ exit_code |-> m.exit_code,
                                      sheet_url |-> m.sheet_url,
                                      artifact_uri |-> m.artifact_uri,
                                      errors |-> m.errors,
                                      wrote |-> m.wrote,
                                      run_id |-> m.run_id ],
                           result |-> TickerResult(req.ticker, "sheets",
                                        [ raised |-> FALSE, msg |-> "",
                                          exit_code |-> m.exit_code,
                                          artifact_uri |-> m.artifact_uri,
                                          errors |-> m.errors ]) ]
    /\ UNCHANGED <<cfg, gin, gout, sco, met, gcs, runs>>

NextMain == EvaluateCall

SpecMain == Init /\ [][NextMain]_vars

----------------------------------------------------------------------------
(* InvestmentScorer (scoring.py).  A dict is a function on its keys; the   *)
(* empty dict is the function with no key.  Ratios and percentages are     *)
(* fixed-point numbers in hundredths (20.5 is 2050), ladder points are     *)
(* integers, and totals are in hundredths of a point.                      *)

\* d.get(k, default)
Get(d, k, default) == IF k \in DOMAIN d THEN d[k] ELSE default

\* Python's round(): to the nearest multiple of  unit , ties to even
RoundHalfEven(x, unit) ==
    LET q == x \div unit
        r == x % unit
    IN  IF 2 * r < unit THEN q
        ELSE IF 2 * r > unit THEN q + 1
        ELSE IF q % 2 = 0 THEN q ELSE q + 1

Min(a, b) == IF a < b THEN a ELSE b

Max(a, b) == IF a > b THEN a ELSE b

\* float('inf')
Inf == 100000000

ScoreProfitability(g) ==
    IF DOMAIN g = {} THEN 0
    ELSE LET net_margin == Get(g, "net_margin", 0)
             roe == Get(g, "roe", 0)
             gross_margin == Get(g, "gross_margin", 0)
             a == IF net_margin > 2000 THEN 30
                  ELSE IF net_margin > 1000 THEN 20
                  ELSE IF net_margin > 500 THEN 10 ELSE 0
             b == IF roe > 2000 THEN 40
                  ELSE IF roe > 1500 THEN 30
                  ELSE IF roe > 1000 THEN 20 ELSE 0
             c == IF gross_margin > 5000 THEN 30
                  ELSE IF gross_margin > 3000 THEN 20
                  ELSE IF gross_margin > 2000 THEN 10 ELSE 0
         IN  Min(a + b + c, 100)

GrowthPoints(x) ==
    IF x > 2000 THEN 50
    ELSE IF x > 1000 THEN 35
    ELSE IF x > 500 THEN 20
    ELSE IF x > 0 THEN 10 ELSE 0

ScoreGrowth(g) ==
    IF DOMAIN g = {} THEN 0
    ELSE Min(GrowthPoints(Get(g, "revenue_growth", 0))
               + GrowthPoints(Get(g, "earnings_growth", 0)), 100)

ScoreValue(g) ==
    IF DOMAIN g = {} THEN 0
    ELSE LET pe_ratio == Get(g, "pe_ratio", 0)
             pb_ratio == Get(g, "pb_ratio", 0)
             ps_ratio == Get(g, "price_to_sales", 0)
             a == IF 0 < pe_ratio /\ pe_ratio < 1500 THEN 50
                  ELSE IF 1500 <= pe_ratio /\ pe_ratio < 2500 THEN 35
                  ELSE IF 2500 <= pe_ratio /\ pe_ratio < 3500 THEN 20
                  ELSE IF pe_ratio >= 3500 THEN 10 ELSE 0
             b == IF 0 < pb_ratio /\ pb_ratio < 200 THEN 30
                  ELSE IF 200 <= pb_ratio /\ pb_ratio < 400 THEN 20
                  ELSE IF 400 <= pb_ratio /\ pb_ratio < 600 THEN 10 ELSE 0
             c == IF 0 < ps_ratio /\ ps_ratio < 200 THEN 20
                  ELSE IF 200 <= ps_ratio /\ ps_ratio < 400 THEN 10 ELSE 0
         IN  Min(a + b + c, 100)

ScoreQuality(g) ==
    IF DOMAIN g = {} THEN 0
    ELSE LET debt_to_equity == Get(g, "debt_to_equity", 0)
             cf_to_ni == Get(g, "cash_flow_to_net_income", 0)
             fcf == Get(g, "free_cash_flow", 0)
             a == IF debt_to_equity < 50 THEN 40
                  ELSE IF debt_to_equity < 100 THEN 30
                  ELSE IF debt_to_equity < 200 THEN 15 ELSE 0
             b == IF cf_to_ni > 120 THEN 40
                  ELSE IF cf_to_ni > 100 THEN 30
                  ELSE IF cf_to_ni > 80 THEN 20 ELSE 0
             c == IF fcf > 0 THEN 20 ELSE 0
         IN  Min(a + b + c, 100)

\* variant: an infinite interest coverage earns nothing
ScoreFinancialHealth_FiniteCoverage(g) ==
    IF DOMAIN g = {} THEN 0
    ELSE LET current_ratio == Get(g, "current_ratio", 0)
             quick_ratio == Get(g, "quick_ratio", 0)
             interest_coverage == Get(g, "interest_coverage", 0)
             a == IF current_ratio > 200 THEN 40
                  ELSE IF current_ratio > 150 THEN 30
                  ELSE IF current_ratio > 100 THEN 20 ELSE 0
             b == IF quick_ratio > 150 THEN 30
                  ELSE IF quick_ratio > 100 THEN 20
                  ELSE IF quick_ratio > 75 THEN 10 ELSE 0
             c == IF interest_coverage = Inf THEN 0
                  ELSE IF interest_coverage > 1000 THEN 30
                  ELSE IF interest_coverage > 500 THEN 20
                  ELSE IF interest_coverage > 200 THEN 10 ELSE 0
         IN  Min(a + b + c, 100)

ScoreFinancialHealth(g) ==
    IF DOMAIN g = {} THEN 0
    ELSE LET current_ratio == Get(g, "current_ratio", 0)
             quick_ratio == Get(g, "quick_ratio", 0)
             interest_coverage == Get(g, "interest_coverage", 0)
             a == IF current_ratio > 200 THEN 40
                  ELSE IF current_ratio > 150 THEN 30
                  ELSE IF current_ratio > 100 THEN 20 ELSE 0
             b == IF quick_ratio > 150 THEN 30
                  ELSE IF quick_ratio > 100 THEN 20
                  ELSE IF quick_ratio > 75 THEN 10 ELSE 0
             c == IF interest_coverage > 1000 THEN 30
                  ELSE IF interest_coverage > 500 THEN 20
                  ELSE IF interest_coverage > 200 THEN 10 ELSE 0
         IN  Min(a + b + c, 100)

\* variant: financial health weighs 0.20
Weights_HealthTwenty ==
    [ profitability |-> 2500, growth |-> 2000, value |-> 2000,
      quality |-> 2000, financial_health |-> 2000 ]

\* WEIGHTS, in ten-thousandths
Weights ==
    [ profitability |-> 2500, growth |-> 2000, value |-> 2000,
      quality |-> 2000, financial_health |-> 1500 ]

\* variant: STRONG BUY needs a total above 80
GetRecommendation_Above80(score) ==
    LET total_score == Get(score, "total", Get(score, "total_score", 0))
    IN  IF total_score > 8000
          THEN "STRONG BUY - Excellent investment opportunity"
        ELSE IF total_score >= 7000
          THEN "BUY - Good investment with solid fundamentals"
        ELSE IF total_score >= 6000
          THEN "HOLD - Acceptable investment, monitor closely"
        ELSE IF total_score >= 5000
          THEN "CAUTIOUS - Weak fundamentals, consider alternatives"
        ELSE "AVOID - Poor investment metrics"

\* get_recommendation
GetRecommendation(score) ==
    LET total_score == Get(score, "total", Get(score, "total_score", 0))
    IN  IF total_score >= 8000
          THEN "STRONG BUY - Excellent investment opportunity"
        ELSE IF total_score >= 7000
          THEN "BUY - Good investment with solid fundamentals"
        ELSE IF total_score >= 6000
          THEN "HOLD - Acceptable investment, monitor closely"
        ELSE IF total_score >= 5000
          THEN "CAUTIOUS - Weak fundamentals, consider alternatives"
        ELSE "AVOID - Poor investment metrics"

\* _estimate_moat_score: int(round(float(explicit))), or the estimate
EstimateMoatScore(metrics, profitability_score, quality_score) ==
    LET explicit == Get(metrics, "moat_score", None)
    IN  IF explicit # None THEN RoundHalfEven(explicit, 100)
        ELSE Max(0, Min(10, RoundHalfEven(
                 (profitability_score + quality_score) * 100, 2000)))

\* score(): sub-scores, total, moat estimate and decision of the record
\* (risk_flags, thesis_broken, strengths and concerns are not modelled)
Score(metrics) ==
    LET profitability_score ==
            ScoreProfitability(Get(metrics, "profitability", <<>>))
        growth_score == ScoreGrowth(Get(metrics, "growth", <<>>))
        value_score == ScoreValue(Get(metrics, "value", <<>>))
        quality_score == ScoreQuality(Get(metrics, "quality", <<>>))
        health_score ==
            ScoreFinancialHealth(Get(metrics, "financial_health", <<>>))
        total_score == profitability_score * Weights.profitability
                         + growth_score * Weights.growth
                         + value_score * Weights.value
                         + quality_score * Weights.quality
                         + health_score * Weights.financial_health
        total == RoundHalfEven(total_score, 100)
    IN  [ total |-> total,
          total_score |-> total,
          moat_score |-> EstimateMoatScore(metrics, profitability_score,
                                           quality_score),
          subscores |-> [ profitability |-> profitability_score * 100,
                          growth |-> growth_score * 100,
                          value |-> value_score * 100,
                          quality |-> quality_score * 100,
                          financial_health |-> health_score * 100 ],
          decision |-> GetRecommendation([total |-> total,
                                          total_score |-> total]) ]

NoDict == [k \in {} |-> 0]

ProfitabilityGroups ==
    { NoDict,
      [net_margin |-> 2500, roe |-> 2500, gross_margin |-> 6000],
      [net_margin |-> 1500, roe |-> 1200, gross_margin |-> 2500],
      [net_margin |-> -500, roe |-> 0, gross_margin |-> 2000] }

GrowthGroups ==
    { NoDict,
      [revenue_growth |-> 2500, earnings_growth |-> 2500],
      [revenue_growth |-> 1500, earnings_growth |-> 1500],
      [revenue_growth |-> -500, earnings_growth |-> 300] }

ValueGroups ==
    { NoDict,
      [pe_ratio |-> 1000, pb_ratio |-> 100, price_to_sales |-> 100],
      [pe_ratio |-> 3000, pb_ratio |-> 500, price_to_sales |-> 300],
      [pe_ratio |-> 0, pb_ratio |-> 0, price_to_sales |-> 0] }

QualityGroups ==
    { NoDict,
      [debt_to_equity |-> 30, cash_flow_to_net_income |-> 150,
       free_cash_flow |-> 1000],
      [debt_to_equity |-> 150, cash_flow_to_net_income |-> 90,
       free_cash_flow |-> -500],
      [debt_to_equity |-> 300, cash_flow_to_net_income |-> 0,
       free_cash_flow |-> 0] }

HealthGroups ==
    { NoDict,
      [current_ratio |-> 250, quick_ratio |-> 200, interest_coverage |-> Inf],
      [current_ratio |-> 120, quick_ratio |-> 80, interest_coverage |-> 300],
      [current_ratio |-> 50, quick_ratio |-> 50, interest_coverage |-> 100] }

\* metrics["moat_score"]: absent, or a number supplied from outside
ExplicitMoats == {None, 700, 650, 1500, -300}

ScoreMetrics ==
    [ profitability : ProfitabilityGroups, growth : GrowthGroups,
      value : ValueGroups, quality : QualityGroups,
      financial_health : HealthGroups, moat_score : ExplicitMoats ]

\* totals handed to get_recommendation, in hundredths, up to one step
\* above 100
RecTotals == 0..10001

RecInputs ==
    { [k \in {"total"} |-> t] : t \in RecTotals }
      \cup { [k \in {"total_score"} |-> t] : t \in RecTotals }
      \cup { NoDict }

InitScore ==
    /\ WriterIdle /\ srv = NoRun /\ met = NoMetrics
    /\ gcs = NoStore /\ runs = NoRuns
    /\ sco \in { [phase |-> "metrics", metrics |-> m] : m \in ScoreMetrics }
          \cup { [phase |-> "score", score |-> d] : d \in RecInputs }

ScoreCall ==
    /\ sco.phase = "metrics"
    /\ sco' = [ phase |-> "scored", metrics |-> sco.metrics,
                out |-> Score(sco.metrics) ]
    /\ UNCHANGED <<writerVars, srv, met, gcs, runs>>

\* get_recommendation on a score dict, and on the same dict one hundredth
\* of a point higher
RecommendCall ==
    /\ sco.phase = "score"
    /\ sco' = [ phase |-> "recommended", score |-> sco.score,
                rec |-> GetRecommendation(sco.score),
                above |-> GetRecommendation(
                            [k \in DOMAIN sco.score |-> sco.score[k] + 1]) ]
    /\ UNCHANGED <<writerVars, srv, met, gcs, runs>>

NextScore == ScoreCall \/ RecommendCall

SpecScore == InitScore /\ [][NextScore]_vars

----------------------------------------------------------------------------
(* The five ladders of the scorer, each on its own metrics group, over the *)
(* values around every threshold.                                          *)

\* score(): the sub-score of one category
SubScore(kind, g) ==
    CASE kind = "profitability" -> ScoreProfitability(g)
      [] kind = "growth" -> ScoreGrowth(g)
      [] kind = "value" -> ScoreValue(g)
      [] kind = "quality" -> ScoreQuality(g)
      [] kind = "financial_health" -> ScoreFinancialHealth(g)

GrowthValues == {-500, 0, 1, 500, 501, 1000, 1001, 2000, 2001}

LadderGroups ==
    [ profitability |->
        [ net_margin : {-500, 0, 500, 501, 1000, 1001, 2000, 2001},
          roe : {-100, 1000, 1001, 1500, 1501, 2000, 2001},
          gross_margin : {0, 2000, 2001, 3000, 3001, 5000, 5001} ]
          \cup { NoDict, [roe |-> 2001] },
      growth |->
        [ revenue_growth : GrowthValues, earnings_growth : GrowthValues ]
          \cup { NoDict, [revenue_growth |-> 2001] },
      value |->
        [ pe_ratio : {-100, 0, 1, 1499, 1500, 2499, 2500, 3499, 3500, 9000},
          pb_ratio : {-1, 0, 1, 199, 200, 399, 400, 599, 600},
          price_to_sales : {0, 1, 199, 200, 399, 400} ]
          \cup { NoDict, [pe_ratio |-> 1000] },
      quality |->
        [ debt_to_equity : {-100, 0, 49, 50, 99, 100, 199, 200},
          cash_flow_to_net_income : {-10, 80, 81, 100, 101, 120, 121},
          free_cash_flow : {-1, 0, 1} ]
          \cup { NoDict, [free_cash_flow |-> 1] },
      financial_health |->
        [ current_ratio : {0, 100, 101, 150, 151, 200, 201},
          quick_ratio : {0, 75, 76, 100, 101, 150, 151},
          interest_coverage : {-100, 200, 201, 500, 501, 1000, 1001, Inf} ]
          \cup { NoDict, [interest_coverage |-> Inf] } ]

InitLadder ==
    /\ WriterIdle /\ srv = NoRun /\ met = NoMetrics
    /\ gcs = NoStore /\ runs = NoRuns
    /\ sco \in { [phase |-> "group", kind |-> k, group |-> g] :
                    k \in {"profitability"}, g \in LadderGroups.profitability }
          \cup { [phase |-> "group", kind |-> k, group |-> g] :
                    k \in {"growth"}, g \in LadderGroups.growth }
          \cup { [phase |-> "group", kind |-> k, group |-> g] :
                    k \in {"value"}, g \in LadderGroups.value }
          \cup { [phase |-> "group", kind |-> k, group |-> g] :
                    k \in {"quality"}, g \in LadderGroups.quality }
          \cup { [phase |-> "group", kind |-> k, group |-> g] :
                    k \in {"financial_health"},
                    g \in LadderGroups.financial_health }

SubScoreCall ==
    /\ sco.phase = "group"
    /\ sco' = [ phase |-> "subscored", kind |-> sco.kind,
                group |-> sco.group, sub |-> SubScore(sco.kind, sco.group) ]
    /\ UNCHANGED <<writerVars, srv, met, gcs, runs>>

NextLadder == SubScoreCall

SpecLadder == InitLadder /\ [][NextLadder]_vars

----------------------------------------------------------------------------
(* MetricsCalculator (metrics.py).  Amounts are integers; percentages and  *)
(* ratios are fixed-point numbers in hundredths, rounded down where the    *)
(* code divides floats.  An operation on None raises TypeError, which the  *)
(* value TypeError stands for until calculate() is left.                   *)

TypeError == -8888

Raises(v) == v = TypeError

\* (a / b * 100) if b else 0, in hundredths of a percent
PctOrZero(a, b) ==
    IF ~Truthy(b) THEN 0
    ELSE IF a = None THEN TypeError
    ELSE (a * 10000) \div b

\* a / b if b else 0, in hundredths
RatioOrZero(a, b) ==
    IF ~Truthy(b) THEN 0
    ELSE IF a = None THEN TypeError
    ELSE (a * 100) \div b

\* what stands for a dict whose construction raised
Raised == [k \in {"<TypeError>"} |-> TypeError]

\* a dict raises when the computation of one of its values did
Checked(g) == IF \E k \in DOMAIN g : Raises(g[k]) THEN Raised ELSE g

\* _calculate_profitability
CalculateProfitability(income_statements, balance_sheets) ==
    IF income_statements = <<>> \/ balance_sheets = <<>> THEN NoDict
    ELSE LET latest_income == income_statements[1]
             latest_balance == balance_sheets[1]
             net_income == Get(latest_income, "netIncome", 0)
             revenue == Get(latest_income, "revenue", 1)
             total_assets == Get(latest_balance, "totalAssets", 1)
             shareholders_equity ==
                 Get(latest_balance, "totalStockholdersEquity", 1)
         IN  Checked(
               [ net_margin |-> PctOrZero(net_income, revenue),
                 roa |-> PctOrZero(net_income, total_assets),
                 roe |-> PctOrZero(net_income, shareholders_equity),
                 gross_margin |->
                     PctOrZero(Get(latest_income, "grossProfit", 0), revenue),
                 operating_margin |->
                     PctOrZero(Get(latest_income, "operatingIncome", 0),
                               revenue) ])

\* _calculate_growth_rate
CalculateGrowthRate(old_value, new_value) ==
    IF old_value = 0 THEN 0
    ELSE IF old_value = None \/ new_value = None THEN TypeError
    ELSE ((new_value - old_value) * 10000) \div old_value

\* r ** n without leaving the machine integers
Pow(r, n) == IF n = 1 THEN r ELSE IF n = 2 THEN r * r
             ELSE IF n = 3 THEN r * r * r ELSE r * r * r * r

\* the hundredths of  (e / b) ** (1 / n) , rounded down, for n in 1..4
RootOfRatio(e, b, n) ==
    LET x == (e * Pow(100, n)) \div b
    IN  CHOOSE r \in 0..1000 :
          /\ r = 0 \/ (IF n = 1 THEN r <= x
                        ELSE Pow(r, n - 1) <= x \div r)
          /\ IF n = 1 THEN r + 1 > x
             ELSE Pow(r + 1, n - 1) > x \div (r + 1)

\* _calculate_cagr, to the whole percent
CalculateCagr(values) ==
    IF Len(values) < 2 THEN 0
    ELSE IF \E i \in 1..Len(values) : values[i] = None THEN TypeError
    ELSE LET pos == {i \in 1..Len(values) : values[i] > 0}
         IN  IF Cardinality(pos) < 2 THEN 0
             ELSE LET first == CHOOSE i \in pos : \A j \in pos : i <= j
                      final == CHOOSE i \in pos : \A j \in pos : j <= i
                      n == Cardinality(pos) - 1
                  IN  (RootOfRatio(values[first], values[final], n) - 100)
                        * 100

\* _calculate_growth
CalculateGrowth(income_statements) ==
    IF Len(income_statements) < 2 THEN NoDict
    ELSE LET current == income_statements[1]
             previous == income_statements[2]
             head == SubSeq(income_statements, 1,
                            Min(5, Len(income_statements)))
         IN  Checked(
               [ revenue_growth |->
                     CalculateGrowthRate(Get(previous, "revenue", 0),
                                         Get(current, "revenue", 0)),
                 earnings_growth |->
                     CalculateGrowthRate(Get(previous, "netIncome", 0),
                                         Get(current, "netIncome", 0)),
                 revenue_cagr_5y |->
                     CalculateCagr([i \in 1..Len(head) |->
                                       Get(head[i], "revenue", 0)]) ])

\* _calculate_value_metrics
CalculateValueMetrics(profile, key_metrics) ==
    IF key_metrics = <<>> THEN NoDict
    ELSE LET latest_metrics == key_metrics[1]
         IN  [ pe_ratio |-> Get(latest_metrics, "peRatio", 0),
               pb_ratio |-> Get(latest_metrics, "pbRatio", 0),
               price_to_sales |->
                   Get(latest_metrics, "priceToSalesRatio", 0),
               ev_to_ebitda |->
                   Get(latest_metrics, "evToOperatingCashFlow", 0),
               market_cap |-> Get(profile, "mktCap", 0) ]

\* variant: quality needs no cash-flow statement
CalculateQualityMetrics_NoCashFlowTest(balance_sheets, cash_flows, income_statements) ==
    IF balance_sheets = <<>> \/ income_statements = <<>> THEN NoDict
    ELSE LET latest_balance == balance_sheets[1]
             latest_cash_flow == IF cash_flows = <<>> THEN NoDict
                                 ELSE cash_flows[1]
             latest_income == income_statements[1]
             total_debt == Get(latest_balance, "totalDebt", 0)
             total_equity == Get(latest_balance, "totalStockholdersEquity", 1)
             ebitda == Get(latest_income, "ebitda", 1)
             operating_cash_flow ==
                 Get(latest_cash_flow, "operatingCashFlow", 0)
             net_income == Get(latest_income, "netIncome", 1)
         IN  Checked(
               [ debt_to_equity |-> RatioOrZero(total_debt, total_equity),
                 debt_to_ebitda |-> RatioOrZero(total_debt, ebitda),
                 cash_flow_to_net_income |->
                     RatioOrZero(operating_cash_flow, net_income),
                 free_cash_flow |->
                     Get(latest_cash_flow, "freeCashFlow", 0) ])

\* _calculate_quality_metrics
CalculateQualityMetrics(balance_sheets, cash_flows, income_statements) ==
    IF balance_sheets = <<>> \/ cash_flows = <<>> \/ income_statements = <<>>
      THEN NoDict
    ELSE LET latest_balance == balance_sheets[1]
             latest_cash_flow == cash_flows[1]
             latest_income == income_statements[1]
             total_debt == Get(latest_balance, "totalDebt", 0)
             total_equity == Get(latest_balance, "totalStockholdersEquity", 1)
             ebitda == Get(latest_income, "ebitda", 1)
             operating_cash_flow ==
                 Get(latest_cash_flow, "operatingCashFlow", 0)
             net_income == Get(latest_income, "netIncome", 1)
         IN  Checked(
               [ debt_to_equity |-> RatioOrZero(total_debt, total_equity),
                 debt_to_ebitda |-> RatioOrZero(total_debt, ebitda),
                 cash_flow_to_net_income |->
                     RatioOrZero(operating_cash_flow, net_income),
                 free_cash_flow |->
                     Get(latest_cash_flow, "freeCashFlow", 0) ])

\* _calculate_financial_health
CalculateFinancialHealth(balance_sheets, income_statements) ==
    IF balance_sheets = <<>> \/ income_statements = <<>> THEN NoDict
    ELSE LET latest_balance == balance_sheets[1]
             latest_income == income_statements[1]
             current_assets == Get(latest_balance, "totalCurrentAssets", 0)
             current_liabilities ==
                 Get(latest_balance, "totalCurrentLiabilities", 1)
             inventory == Get(latest_balance, "inventory", 0)
             operating_income == Get(latest_income, "operatingIncome", 0)
             interest_expense == Get(latest_income, "interestExpense", None)
         IN  Checked(
               [ current_ratio |->
                     RatioOrZero(current_assets, current_liabilities),
                 quick_ratio |->
                     IF ~Truthy(current_liabilities) THEN 0
                     ELSE IF current_assets = None \/ inventory = None
                       THEN TypeError
                     ELSE ((current_assets - inventory) * 100)
                            \div current_liabilities,
                 interest_coverage |->
                     IF ~Truthy(interest_expense) THEN Inf
                     ELSE IF operating_income = None THEN TypeError
                     ELSE (operating_income * 100) \div interest_expense ])

\* calculate(): the metrics record, or the exception that leaves it
Calculate(company_data) ==
    LET profile == Get(company_data, "profile", NoDict)
        income_statements == Get(company_data, "income_statements", <<>>)
        balance_sheets == Get(company_data, "balance_sheets", <<>>)
        cash_flows == Get(company_data, "cash_flows", <<>>)
        key_metrics == Get(company_data, "key_metrics", <<>>)
        metrics ==
          [ profitability |->
                CalculateProfitability(income_statements, balance_sheets),
            growth |-> CalculateGrowth(income_statements),
            value |-> CalculateValueMetrics(profile, key_metrics),
            quality |->
                CalculateQualityMetrics(balance_sheets, cash_flows,
                                        income_statements),
            financial_health |->
                CalculateFinancialHealth(balance_sheets, income_statements) ]
    IN  IF \E k \in DOMAIN metrics : "<TypeError>" \in DOMAIN metrics[k]
          THEN [raised |-> TRUE]
          ELSE [raised |-> FALSE, metrics |-> metrics]

IncomeShapes ==
    { [netIncome |-> 20, revenue |-> 100, grossProfit |-> 60,
       operatingIncome |-> 30, ebitda |-> 40, interestExpense |-> 5],
      [netIncome |-> 10, revenue |-> 64, grossProfit |-> 30,
       operatingIncome |-> 12, ebitda |-> 20, interestExpense |-> 0],
      [netIncome |-> 0, revenue |-> 0, grossProfit |-> 0,
       operatingIncome |-> 0, ebitda |-> 0, interestExpense |-> None],
      [netIncome |-> None, revenue |-> 100, grossProfit |-> 60,
       operatingIncome |-> 30, ebitda |-> 40, interestExpense |-> 5],
      NoDict }

BalanceShapes ==
    { [totalAssets |-> 200, totalStockholdersEquity |-> 100,
       totalDebt |-> 50, totalCurrentAssets |-> 80,
       totalCurrentLiabilities |-> 40, inventory |-> 10],
      [totalAssets |-> 0, totalStockholdersEquity |-> 0, totalDebt |-> 50,
       totalCurrentAssets |-> 80, totalCurrentLiabilities |-> 0,
       inventory |-> 10],
      NoDict }

CashFlowShapes ==
    { [operatingCashFlow |-> 30, freeCashFlow |-> 10], NoDict }

KeyMetricsShapes ==
    { [peRatio |-> 1500, pbRatio |-> 300, priceToSalesRatio |-> 200,
       evToOperatingCashFlow |-> 1000],
      NoDict }

ProfileShapes == { [mktCap |-> 1000], NoDict }

\* the sequences whose first element alone is read: empty, or a latest
\* statement followed by older ones
LatestFirst(S) ==
    { <<>> } \cup { [i \in 1..n |-> s] : s \in S, n \in 1..MaxStatements }

\* bundles as FMPClient.get_company_data returns them
Bundles ==
    [ profile : ProfileShapes,
      income_statements : SeqsUpTo(IncomeShapes, MaxStatements),
      balance_sheets : LatestFirst(BalanceShapes),
      cash_flows : LatestFirst(CashFlowShapes),
      key_metrics : LatestFirst(KeyMetricsShapes) ]

InitMetrics ==
    /\ WriterIdle /\ srv = NoRun /\ sco = NoScore
    /\ gcs = NoStore /\ runs = NoRuns
    /\ met \in { [phase |-> "bundle", company_data |-> b] : b \in Bundles }

CalculateCall ==
    /\ met.phase = "bundle"
    /\ met' = [ phase |-> "calculated", company_data |-> met.company_data,
                out |-> Calculate(met.company_data) ]
    /\ UNCHANGED <<writerVars, srv, sco, gcs, runs>>

NextMetrics == CalculateCall

SpecMetrics == InitMetrics /\ [][NextMetrics]_vars

----------------------------------------------------------------------------
(* GCSStore (storage/gcs_store.py).  A Python value is a tree of records   *)
(* [t, s, keys, items]: the type, the literal of a scalar, the keys of a   *)
(* dict in insertion order and the members of a dict or list.  A JSON text *)
(* is a tree of records [k, s, frac, names, items].  Object names are      *)
(* tuples of characters and of the literal pieces the code puts together.  *)

PyNone == [t |-> "NoneType", s |-> "None", keys |-> <<>>, items |-> <<>>]
PyBool(b) ==
    [t |-> "bool", s |-> IF b THEN "True" ELSE "False", keys |-> <<>>,
     items |-> <<>>]
PyInt(s) == [t |-> "int", s |-> s, keys |-> <<>>, items |-> <<>>]
PyFloat(s) == [t |-> "float", s |-> s, keys |-> <<>>, items |-> <<>>]
PyStr(s) == [t |-> "str", s |-> s, keys |-> <<>>, items |-> <<>>]
PyList(items) == [t |-> "list", s |-> "", keys |-> <<>>, items |-> items]
PyDict(keys, items) == [t |-> "dict", s |-> "", keys |-> keys, items |-> items]

JLit(s) ==
    [k |-> "literal", s |-> s, frac |-> FALSE, names |-> <<>>, items |-> <<>>]
JNum(s, frac) ==
    [k |-> "number", s |-> s, frac |-> frac, names |-> <<>>, items |-> <<>>]
JString(s) ==
    [k |-> "string", s |-> s, frac |-> FALSE, names |-> <<>>, items |-> <<>>]
JArray(items) ==
    [k |-> "array", s |-> "", frac |-> FALSE, names |-> <<>>, items |-> items]
JObject(names, items) ==
    [k |-> "object", s |-> "", frac |-> FALSE, names |-> names,
     items |-> items]

\* the float literals that json writes as Infinity, -Infinity and NaN
NonFinite == [inf |-> "Infinity", ninf |-> "-Infinity", nan |-> "NaN"]

RECURSIVE Dumps(_)
\* json.dumps(data, indent=2): the text, as the tree of its tokens
Dumps(v) ==
    CASE v.t = "NoneType" -> JLit("null")
      [] v.t = "bool" -> JLit(IF v.s = "True" THEN "true" ELSE "false")
      [] v.t = "int" -> JNum(v.s, FALSE)
      [] v.t = "float" -> IF v.s \in DOMAIN NonFinite THEN JLit(NonFinite[v.s])
                          ELSE JNum(v.s, TRUE)
      [] v.t = "str" -> JString(v.s)
      [] v.t = "list" ->
           JArray([i \in 1..Len(v.items) |-> Dumps(v.items[i])])
      [] v.t = "dict" ->
           JObject(v.keys, [i \in 1..Len(v.items) |-> Dumps(v.items[i])])

RECURSIVE Loads(_)
\* json.loads(text)
Loads(j) ==
    CASE j.k = "literal" ->
           ( CASE j.s = "null" -> PyNone
               [] j.s = "true" -> PyBool(TRUE)
               [] j.s = "false" -> PyBool(FALSE)
               [] j.s = "Infinity" -> PyFloat("inf")
               [] j.s = "-Infinity" -> PyFloat("ninf")
               [] j.s = "NaN" -> PyFloat("nan") )
      [] j.k = "number" -> IF j.frac THEN PyFloat(j.s) ELSE PyInt(j.s)
      [] j.k = "string" -> PyStr(j.s)
      [] j.k = "array" ->
           PyList([i \in 1..Len(j.items) |-> Loads(j.items[i])])
      [] j.k = "object" ->
           PyDict(j.names, [i \in 1..Len(j.items) |-> Loads(j.items[i])])

\* str.encode("utf-8") and bytes.decode("utf-8")
Encode(text) == [encoding |-> "utf-8", text |-> text]
Decode(bytes) == bytes.text

RECURSIVE StripSlashes(_)
\* str.strip("/")
StripSlashes(s) ==
    IF s = <<>> THEN s
    ELSE IF Head(s) = "/" THEN StripSlashes(Tail(s))
    ELSE IF s[Len(s)] = "/" THEN StripSlashes(SubSeq(s, 1, Len(s) - 1))
    ELSE s

\* variant: the prefix is used as configured
BuildObjectName_RawPrefix(gcs_prefix, ticker, filename) ==
    LET prefix == IF gcs_prefix # <<>> THEN gcs_prefix \o <<"/">> ELSE <<>>
    IN  prefix \o ticker \o <<"/">> \o filename

\* _build_object_name
BuildObjectName(gcs_prefix, ticker, filename) ==
    LET stripped == StripSlashes(gcs_prefix)
        prefix == IF stripped # <<>> THEN stripped \o <<"/">> ELSE <<>>
    IN  prefix \o ticker \o <<"/">> \o filename

\* datetime.utcnow().strftime("%Y%m%d_%H%M%S"), for the instants of the model
Strftime(now) == <<"20240101_00000", <<"0", "1", "2", "3">>[now + 1]>>

ErrNotInitialized == "GCS client not initialized"
ErrUpload == "Failed to upload JSON to GCS"

\* store_json(data, ticker) on the store  st ;  accepts  tells whether the
\* bucket takes the upload.  The store after the call, and what the caller
\* gets: the URI, or the error raised.
StoreJson(st, data, ticker, now, accepts) ==
    IF ~st.client
      THEN [st |-> st, raised |-> ErrNotInitialized, uri |-> NoUri]
    ELSE
    LET timestamp == Strftime(now)
        object_name ==
            BuildObjectName(st.gcs_prefix, ticker,
                            ticker \o <<"_analysis_">> \o timestamp
                                   \o <<".json">>)
        json_bytes == Encode(Dumps(data))
        blob == [name |-> object_name, uploaded_bytes |-> json_bytes,
                 content_type |-> "application/json"]
    IN  IF ~accepts
          THEN [st |-> st, raised |-> ErrUpload, uri |-> NoUri]
          ELSE [st |-> [st EXCEPT !.blobs = Append(@, blob)],
                raised |-> "",
                uri |-> <<"g", "s", ":", "/", "/">> \o st.bucket_name
                          \o <<"/">> \o object_name]

\* config.gcs_prefix
Prefixes ==
    { <<>>, <<"/">>, <<"p">>, <<"/", "p", "/">>, <<"p", "/", "q">>,
      <<"/", "/", "p", "/", "q", "/", "/">> }

BucketNames == { <<"b">> }

StoreTickers == { <<"A">>, <<"B", "C">> }

\* the dictionaries that are stored: the one of the test, and results of the
\* shape that main() builds
StoredData ==
    { PyDict(<<>>, <<>>),
      PyDict(<<"ok">>, <<PyBool(TRUE)>>),
      PyDict(<<"ok">>, <<PyBool(FALSE)>>),
      PyDict(<<"ticker", "run_id">>, <<PyStr("A"), PyStr("uuid4")>>),
      PyDict(<<"ticker", "score">>,
             <<PyStr("A"),
               PyDict(<<"total", "total_score", "moat_score", "risk_flags">>,
                      <<PyFloat("80.5"), PyFloat("80.5"), PyInt("9"),
                        PyList(<<>>)>>)>>),
      PyDict(<<"metrics">>,
             <<PyDict(<<"financial_health">>,
                      <<PyDict(<<"interest_coverage", "debt_to_equity">>,
                               <<PyFloat("inf"), PyInt("0")>>)>>)>>),
      PyDict(<<"score">>,
             <<PyDict(<<"concerns", "moat_score">>,
                      <<PyList(<<PyStr("Low margin"), PyStr("Debt")>>),
                        PyNone>>)>>) }

InitStoreIdle ==
    /\ WriterIdle
    /\ srv = NoRun /\ sco = NoScore /\ met = NoMetrics
    /\ gcs = NoStore /\ runs = NoRuns

\* GCSStore(config): the client is None when the library or the credentials
\* are missing
NewStore ==
    /\ gcs.phase = "idle"
    /\ \E bucket \in BucketNames, prefix \in Prefixes, client \in BOOLEAN :
         gcs' = [ phase |-> "ready", bucket_name |-> bucket,
                  gcs_prefix |-> prefix, client |-> client, blobs |-> <<>> ]
    /\ UNCHANGED <<writerVars, srv, sco, met, runs>>

StoreJsonCall ==
    /\ gcs.phase = "ready"
    /\ \E data \in StoredData, ticker \in StoreTickers, now \in 0..1,
          accepts \in BOOLEAN :
         \E res \in {StoreJson(gcs, data, ticker, now, accepts)} :
           gcs' = [ phase |-> "stored", bucket_name |-> gcs.bucket_name,
                    gcs_prefix |-> gcs.gcs_prefix, client |-> gcs.client,
                    blobs |-> res.st.blobs, data |-> data,
                    ticker |-> ticker, now |-> now, accepts |-> accepts,
                    raised |-> res.raised, uri |-> res.uri ]
    /\ UNCHANGED <<writerVars, srv, sco, met, runs>>

NextStore == NewStore \/ StoreJsonCall

SpecStore == InitStoreIdle /\ [][NextStore]_vars

----------------------------------------------------------------------------
(* write() calls of two processes on one spreadsheet, without a lock.  A   *)
(* step is one method of the writer that sends requests; what write()      *)
(* computes between two requests belongs to the step of the request before *)
(* it.  The calls are live, and both tabs exist when they start.           *)

\* the tickers of each process: process 1 may evaluate a ticker of the block
RaceTickers == <<{ <<"c">>, <<"B">> }, { <<"D", " ">> }>>

RaceScores == <<{80, 60}, {90}>>

RaceCalls(p) ==
    [ results : { [BasePayload EXCEPT !.ticker = t, !.total = n,
                                      !.total_score = n] :
                     t \in RaceTickers[p], n \in RaceScores[p] },
      allow_append : BOOLEAN ]

InFlight(p) == runs.proc[p].pc \notin {"idle", "done"}

Shared == World(tabs, header, colA, dash, log)

\* the store after a step of process  p, its new position and locals
Stepped(p, w, run) ==
    /\ tabs' = w.tabs /\ header' = w.header /\ colA' = w.colA
    /\ dash' = w.dash /\ log' = w.log
    /\ runs' = [runs EXCEPT !.proc[p] =
                  [run EXCEPT !.ops = @ \o w.ops,
                              !.emitted = @ \o w.emitted]]
    /\ UNCHANGED <<cfg, clock, last, gin, gout, srv, sco, met, gcs>>

InitRace ==
    /\ Init
    /\ tabs = {DashboardTab, PromoLogTab}

\* write() is entered: the ticker is normalized, the run id drawn
BeginWrite(p) ==
    /\ runs.proc[p].pc = "idle"
    /\ \E q \in RaceCalls(p) :
         /\ runs' = [ proc |-> [runs.proc EXCEPT ![p] =
                        [ pc |-> "ensure_tab", results |-> q.results,
                          allow_append |-> q.allow_append,
                          ticker |-> NormalizeTicker(q.results.ticker),
                          run_id |-> Uuid4(clock + 1), now |-> clock + 1,
                          dashboard_rows |-> <<>>, row |-> None,
                          action |-> "", reason |-> "",
                          ops |-> <<>>, emitted |-> <<>> ]],
                      overlapped |-> runs.overlapped
                                       \/ \E o \in Procs \ {p} : InFlight(o) ]
         /\ clock' = clock + 1
    /\ UNCHANGED <<cfg, tabs, header, colA, dash, log, last, gin, gout, srv,
                   sco, met, gcs>>

\* self._ensure_tab(self.dashboard_tab)
EnsureDashboardTab(p) ==
    LET run == runs.proc[p]
    IN  /\ run.pc = "ensure_tab"
        /\ Stepped(p, EnsureTab(Shared, DashboardTab),
                   [run EXCEPT !.pc = "ensure_log"])

\* self._ensure_promotion_log_tab()
EnsureLogTab(p) ==
    LET run == runs.proc[p]
    IN  /\ run.pc = "ensure_log"
        /\ Stepped(p, EnsurePromotionLogTab(Shared),
                   [run EXCEPT !.pc = "read"])

\* self._read_dashboard_column_a(), and the branch that write() takes on
\* what was read
ReadColumnA(p) ==
    LET run == runs.proc[p]
        dashboard_rows == ReadDashboardColumnA(colA)
        ticker_map == BuildTickerRowMap(dashboard_rows)
        gate == ShouldPromote(cfg, run.results)
        empty_row == FindFirstEmptyRow(dashboard_rows)
        read == [run EXCEPT !.dashboard_rows = dashboard_rows]
    IN  /\ run.pc = "read"
        /\ Stepped(p, Request(Shared, "readA", Shared),
             IF run.ticker \in DOMAIN ticker_map
               THEN [read EXCEPT !.pc = "update",
                                 !.row = ticker_map[run.ticker]]
             ELSE IF ~run.allow_append
               THEN [read EXCEPT !.pc = "log", !.reason = gate.reason,
                       !.action = "NOT_APPENDED_ALLOW_APPEND_FALSE"]
             ELSE IF ~gate.promote
               THEN [read EXCEPT !.pc = "log", !.reason = gate.reason,
                                 !.action = "REJECTED"]
             ELSE IF empty_row = None
               THEN [read EXCEPT !.pc = "log", !.reason = ReasonNoCapacity,
                                 !.action = "FAILED_NO_CAPACITY"]
             ELSE [read EXCEPT !.pc = "append_ticker", !.row = empty_row,
                               !.reason = gate.reason])

\* the update path: _update_dashboard_ai_columns, and write() returns
UpdateRow(p) ==
    LET run == runs.proc[p]
    IN  /\ run.pc = "update"
        /\ Stepped(p, UpdateDashboardAiColumns(Shared, run.row, run.results,
                                               FALSE, run.now),
                   [run EXCEPT !.pc = "done", !.action = "UPDATED"])

\* self._append_new_ticker_row(empty_row, ticker, dry_run)
AppendTicker(p) ==
    LET run == runs.proc[p]
    IN  /\ run.pc = "append_ticker"
        /\ Stepped(p, AppendNewTickerRow(Shared, run.row, run.ticker, FALSE),
                   [run EXCEPT !.pc = "append_columns"])

\* self._update_dashboard_ai_columns(empty_row, results, dry_run)
WriteColumns(p) ==
    LET run == runs.proc[p]
    IN  /\ run.pc = "append_columns"
        /\ Stepped(p, UpdateDashboardAiColumns(Shared, run.row, run.results,
                                               FALSE, run.now),
                   [run EXCEPT !.pc = "log",
                               !.action = PromotionAction(run.results)])

\* self._log_promotion_event(...), and write() returns
LogEvent(p) ==
    LET run == runs.proc[p]
    IN  /\ run.pc = "log"
        /\ Stepped(p, LogPromotionEvent(Shared, run.results, run.action,
                                        run.reason, run.run_id, FALSE,
                                        run.now),
                   [run EXCEPT !.pc = "done"])

NextRace ==
    \E p \in Procs :
        \/ BeginWrite(p)
        \/ EnsureDashboardTab(p)
        \/ EnsureLogTab(p)
        \/ ReadColumnA(p)
        \/ UpdateRow(p)
        \/ AppendTicker(p)
        \/ WriteColumns(p)
        \/ LogEvent(p)

SpecRace == InitRace /\ [][NextRace]_vars

----------------------------------------------------------------------------
(* Vocabulary of the properties *)

Called == last.outcome \notin {"NONE", "ERROR"}

LastTicker == NormalizeTicker(last.results.ticker)

\* the ticker of the call had a row in the block before the call
WasInBlock == TickerRows(last.pre.colA, LastTicker) # {}

BlankRowsBefore == {i \in BlockRows : Blank(last.pre.colA[i])}

GatePassed == ShouldPromote(cfg, last.results).promote

GateActions == {"NOT_APPENDED_ALLOW_APPEND_FALSE", "REJECTED",
                "FAILED_NO_CAPACITY", "PROMOTED", "HIGH_PRIORITY"}

MutatingOps == {"addSheet", "updateHeader", "updateA", "updateEJ",
                "appendLog"}

OpsOf(ops) == {ops[k] : k \in 1..Len(ops)}

----------------------------------------------------------------------------
(* C1: a completed write() for a ticker that had no row in the block emits *)
(* exactly one promotion-log entry, whose action is one of the five gate   *)
(* outcomes (and a live call appends exactly that entry to the log tab);   *)
(* a write() for a ticker that had a row (UPDATED) evaluates no gate and   *)
(* emits no entry.                                                         *)
C1_OneEntryPerNewTicker ==
    Called =>
      IF WasInBlock
        THEN /\ last.outcome = "UPDATED"
             /\ ~last.gated
             /\ last.emitted = <<>>
             /\ log = last.pre.log
        ELSE /\ last.gated
             /\ Len(last.emitted) = 1
             /\ last.emitted[1].action \in GateActions
             /\ last.emitted[1].action = last.outcome
             /\ log = IF last.dry_run THEN last.pre.log
                      ELSE Append(last.pre.log, last.emitted[1])

C1_Witness ==
    /\ Called /\ ~WasInBlock /\ last.dry_run
    /\ last.outcome = "REJECTED" /\ Len(last.emitted) = 1

(* C2: the gate reports the first rule that fails in the order score,      *)
(* business quality, thesis, risk flags, leverage, and passes exactly when *)
(* all five hold; an absent or below-threshold total is rejected with the  *)
(* score reason whatever the other inputs are.                             *)
C2_GateOrder ==
    gout # NoGate =>
      LET t == IF gin.total # None THEN gin.total ELSE gin.total_score
          r1 == t # None /\ t >= PromoteScoreThreshold
          r2 == BusinessPass(cfg, gin)
          r3 == ThesisRulePass(cfg, gin)
          r4 == RiskRulePass(gin)
          r5 == LeverageRulePass(gin)
      IN  /\ ~r1 => ~gout.promote /\ gout.reason = ReasonScore
          /\ (gout.reason = ReasonScore) <=> ~r1
          /\ (gout.reason = ReasonBusiness) <=> (r1 /\ ~r2)
          /\ (gout.reason = ReasonThesis) <=> (r1 /\ r2 /\ ~r3)
          /\ (gout.reason = ReasonRisk(GateRiskFlags(gin)))
                <=> (r1 /\ r2 /\ r3 /\ ~r4)
          /\ (gout.reason = ReasonLeverage) <=> (r1 /\ r2 /\ r3 /\ r4 /\ ~r5)
          /\ gout.promote <=> (r1 /\ r2 /\ r3 /\ r4 /\ r5)
          /\ gout.promote <=> (gout.reason = ReasonPassed)

C2_Witness ==
    /\ gout.reason = ReasonScore
    /\ gin.total = 74
    /\ ~BusinessPass(cfg, gin) /\ gin.thesis_broken
    /\ ~RiskRulePass(gin) /\ ~LeverageRulePass(gin)

(* C3: two successive identical write() calls for a ticker that has a row  *)
(* leave the row's columns E-J the same after the second call as after the *)
(* first, and neither call emits a promotion-log entry.                    *)
C3_UpdateIdempotent ==
    [][ ( /\ last.outcome = "UPDATED" /\ last'.outcome = "UPDATED"
          /\ last'.results = last.results
          /\ last'.allow_append = last.allow_append
          /\ last'.dry_run = last.dry_run
          /\ last'.run_id = last.run_id )
        => /\ last'.row = last.row
           /\ dash'[last'.row] = dash[last.row]
           /\ last.emitted = <<>> /\ last'.emitted = <<>> ]_vars

(* C4: on the same payload, allow_append and ledger snapshot, the dry run  *)
(* and the live run reach the same outcome, target row and reason, and     *)
(* leave the same worksheets and header.                                   *)
C4_DryRunEquivalence ==
    last.outcome # "NONE" =>
      /\ last.twin.outcome = last.outcome
      /\ last.twin.row = last.row
      /\ last.twin.reason = last.reason
      /\ last.twin.tabs = tabs
      /\ last.twin.header = header

C4_Witness ==
    /\ last.outcome = "PROMOTED" /\ last.dry_run
    /\ last.twin.outcome = "PROMOTED" /\ last.row # None
    /\ \E i \in BlockRows : last.pre.colA[i] # EmptyCell

(* C5: a write() with dry_run=true issues no mutating request and leaves   *)
(* the store as it was.                                                    *)
C5_DryRunNoMutation ==
    (last.outcome # "NONE" /\ last.dry_run) =>
      /\ OpsOf(last.ops) \cap MutatingOps = {}
      /\ Store = last.pre

(* C6: with the gate passed and allow_append, a new ticker goes to the     *)
(* lowest blank row of the block whenever the block has one, and           *)
(* FAILED_NO_CAPACITY is produced only when it has none.                   *)
C6_LowestBlankRow ==
    (Called /\ ~WasInBlock /\ last.allow_append /\ GatePassed) =>
      IF BlankRowsBefore # {}
        THEN /\ last.outcome \in {"PROMOTED", "HIGH_PRIORITY"}
             /\ \A i \in BlankRowsBefore : last.row <= i
             /\ last.row \in BlankRowsBefore
             /\ ~last.dry_run => colA[last.row] = LastTicker
        ELSE last.outcome = "FAILED_NO_CAPACITY"

(* C7: a new gate-passing ticker with allow_append on a block without a    *)
(* blank row ends with the single entry FAILED_NO_CAPACITY and no          *)
(* dashboard write.                                                        *)
C7_NoCapacity ==
    (Called /\ ~WasInBlock /\ last.allow_append /\ GatePassed
       /\ BlankRowsBefore = {}) =>
      /\ last.outcome = "FAILED_NO_CAPACITY"
      /\ Len(last.emitted) = 1
      /\ last.emitted[1].action = "FAILED_NO_CAPACITY"
      /\ OpsOf(last.ops) \cap {"updateA", "updateEJ"} = {}
      /\ colA = last.pre.colA
      /\ dash = last.pre.dash

C7_Witness ==
    /\ Called /\ ~WasInBlock /\ last.allow_append /\ GatePassed
    /\ BlankRowsBefore = {} /\ ~last.dry_run
    /\ last.outcome = "FAILED_NO_CAPACITY"

(* C8: with allow_append=false a new ticker is never written to the        *)
(* dashboard, gate passed or not, its single entry is                      *)
(* NOT_APPENDED_ALLOW_APPEND_FALSE with the gate's reason, and REJECTED    *)
(* and FAILED_NO_CAPACITY are logged only under allow_append=true.         *)
C8_AllowAppendFalse ==
    /\ (Called /\ ~WasInBlock /\ ~last.allow_append) =>
         /\ last.outcome = "NOT_APPENDED_ALLOW_APPEND_FALSE"
         /\ Len(last.emitted) = 1
         /\ last.emitted[1].action = "NOT_APPENDED_ALLOW_APPEND_FALSE"
         /\ last.emitted[1].reason = ShouldPromote(cfg, last.results).reason
         /\ OpsOf(last.ops) \cap {"updateA", "updateEJ"} = {}
         /\ colA = last.pre.colA
         /\ dash = last.pre.dash
    /\ \A k \in 1..Len(last.emitted) :
         last.emitted[k].action \in {"REJECTED", "FAILED_NO_CAPACITY"}
           => last.allow_append

C8_Witness ==
    /\ Called /\ ~WasInBlock /\ ~last.allow_append /\ ~GatePassed
    /\ ~last.dry_run /\ BlankRowsBefore # {}
    /\ last.outcome = "NOT_APPENDED_ALLOW_APPEND_FALSE"

(* C9: an appended ticker is logged HIGH_PRIORITY exactly when its total   *)
(* score reaches the high-priority threshold and PROMOTED otherwise, and   *)
(* neither action is logged when the gate failed, allow_append was false,  *)
(* the ticker had a row, or the block had no blank row.                    *)
C9_HighPriority ==
    \A k \in 1..Len(last.emitted) :
      LET a == last.emitted[k].action
          t == IF last.results.total # None THEN last.results.total
               ELSE last.results.total_score
      IN  a \in {"PROMOTED", "HIGH_PRIORITY"} =>
            /\ a = "HIGH_PRIORITY" <=> (t # None /\ t >= HighPriorityThreshold)
            /\ GatePassed /\ last.allow_append /\ ~WasInBlock
            /\ BlankRowsBefore # {}
            /\ a = last.outcome

C9_Witness ==
    /\ last.outcome = "HIGH_PRIORITY" /\ ~last.dry_run
    /\ Len(last.emitted) = 1 /\ last.emitted[1].action = "HIGH_PRIORITY"
    /\ colA[last.row] = LastTicker

(* C10: once the score rule has passed, the business-quality rule passes   *)
(* exactly when the moat estimate reaches the moat threshold, or FCF       *)
(* positivity is required and free cash flow > 0, or ROIC above the sector *)
(* median is required and the supplied above-median flag is true.          *)
C10_BusinessRule ==
    (gout # NoGate /\ ScoreRulePass(gin)) =>
      ( (gout.reason # ReasonBusiness) <=>
          \/ gin.moat_score # None /\ gin.moat_score >= MoatGateThreshold
          \/ cfg.min_fcf_positive /\ gin.fcf # None /\ gin.fcf > 0
          \/ cfg.roic_gate_above_sector_median
               /\ gin.roic_above_sector_median )

(* C11: the leverage rule takes the first value that is present (not       *)
(* None, the value 0 included) among the explicit net_debt_to_ebitda, the  *)
(* quality net_debt_to_ebitda and the quality debt_to_ebitda, and rejects  *)
(* exactly when that value exceeds the ceiling.                            *)
C11_LeverageFirstPresent ==
    (gout # NoGate /\ ScoreRulePass(gin) /\ BusinessPass(cfg, gin)
       /\ ThesisRulePass(cfg, gin) /\ RiskRulePass(gin)) =>
      LET chosen == IF gin.net_debt_to_ebitda # None
                      THEN gin.net_debt_to_ebitda
                    ELSE IF gin.q_net_debt_to_ebitda # None
                      THEN gin.q_net_debt_to_ebitda
                    ELSE gin.q_debt_to_ebitda
      IN  (gout.reason = ReasonLeverage /\ ~gout.promote)
            <=> (chosen # None /\ chosen > MaxNetDebtToEbitda)

(* C12: every normalized ticker occupies at most one row of the block      *)
(* after any sequence of write() calls, and a call whose ticker has a row  *)
(* (one promoted by an earlier live call included) updates that row in     *)
(* place and leaves column A as it was.                                    *)
C12_OneRowPerTicker ==
    /\ \A i \in BlockRows :
         Cardinality(TickerRows(colA, NormalizeTicker(colA[i]))) <= 1
    /\ (Called /\ WasInBlock) =>
         /\ last.outcome = "UPDATED"
         /\ last.row \in TickerRows(last.pre.colA, LastTicker)
         /\ colA = last.pre.colA

C12_Witness ==
    /\ clock >= 2 /\ Len(log) >= 1
    /\ log[1].action \in {"PROMOTED", "HIGH_PRIORITY"}
    /\ NormalizeTicker(log[1].ticker) = LastTicker
    /\ last.outcome = "UPDATED"
    /\ Cardinality(TickerRows(colA, LastTicker)) = 1

(* C13: whatever request of write() raises, no row of the block is left    *)
(* with column A newly set to the ticker and columns E-J not written.      *)
C13_NoHalfWrittenRow ==
    last.outcome # "NONE" =>
      \A i \in BlockRows :
        colA[i] # last.pre.colA[i] =>
          /\ "updateEJ" \in OpsOf(last.ops)
          /\ dash[i] # last.pre.dash[i]

(* C14: the batch runner hands every ticker of the request to the runner,  *)
(* in request order, and returns one result per ticker in that order,      *)
(* whatever tickers raise or return exit_code 1; the result of a ticker    *)
(* whose run raised or returned exit_code 1 has exit_code 1 and the first  *)
(* error message.                                                          *)
C14_BatchIsolation ==
    srv.phase = "returned" =>
      LET n == Len(srv.tickers)
          r == srv.response
      IN  /\ Len(r.calls) = n /\ Len(r.results) = n
          /\ \A i \in 1..n :
               /\ r.calls[i] = NormalizeTicker(srv.tickers[i])
               /\ r.results[i].ticker = NormalizeTicker(srv.tickers[i])
               /\ srv.outcomes[i].raised =>
                    /\ r.results[i].exit_code = 1
                    /\ r.results[i].error_message = srv.outcomes[i].msg
               /\ (~srv.outcomes[i].raised /\ srv.outcomes[i].exit_code = 1)
                    => /\ r.results[i].exit_code = 1
                       /\ r.results[i].error_message
                            = srv.outcomes[i].errors[1]

C14_Witness ==
    /\ srv.phase = "returned" /\ Len(srv.tickers) = 2
    /\ srv.output_format = "sheets"
    /\ srv.outcomes[1].raised /\ srv.outcomes[2].exit_code = 0
    /\ srv.response.results[1].exit_code = 1
    /\ srv.response.results[1].error_message = "boom"
    /\ srv.response.results[2].exit_code = 0

(* C15: the total of a score record is the sum of the five sub-scores      *)
(* weighted 0.25 / 0.20 / 0.20 / 0.20 / 0.15, rounded to two decimals, and *)
(* lies in [0,100]; sub-scores 100/70/100/100/100 give 94.0.               *)
C15_WeightedTotal ==
    sco.phase = "scored" =>
      LET sub == sco.out.subscores
          sum == 25 * sub.profitability + 20 * sub.growth + 20 * sub.value
                   + 20 * sub.quality + 15 * sub.financial_health
          err == sco.out.total * 100 - sum
      IN  /\ -50 <= err /\ err <= 50
          /\ sco.out.total >= 0 /\ sco.out.total <= 10000
          /\ sco.out.total_score = sco.out.total
          /\ ( sub.profitability = 10000 /\ sub.growth = 7000
                 /\ sub.value = 10000 /\ sub.quality = 10000
                 /\ sub.financial_health = 10000 ) => sco.out.total = 9400

C15_Witness ==
    /\ sco.phase = "scored"
    /\ sco.out.subscores =
         [ profitability |-> 10000, growth |-> 7000, value |-> 10000,
           quality |-> 10000, financial_health |-> 10000 ]
    /\ sco.out.total = 9400

RecTier(rec) ==
    CASE rec = "STRONG BUY - Excellent investment opportunity" -> 5
      [] rec = "BUY - Good investment with solid fundamentals" -> 4
      [] rec = "HOLD - Acceptable investment, monitor closely" -> 3
      [] rec = "CAUTIOUS - Weak fundamentals, consider alternatives" -> 2
      [] rec = "AVOID - Poor investment metrics" -> 1
      [] OTHER -> 0

(* C16: get_recommendation gives every total in [0,100] one of the five    *)
(* tiers, STRONG BUY from 80, BUY from 70, HOLD from 60, CAUTIOUS from 50, *)
(* AVOID below (80 is STRONG BUY, 79.99 is BUY), and a total one           *)
(* hundredth higher never gets a lower tier.                               *)
C16_RecommendationTiers ==
    (sco.phase = "recommended" /\ "total" \in DOMAIN sco.score
       /\ sco.score["total"] <= 10000) =>
      LET t == sco.score["total"]
      IN  /\ RecTier(sco.rec) \in 1..5
          /\ RecTier(sco.rec) = 5 <=> t >= 8000
          /\ RecTier(sco.rec) = 4 <=> (7000 <= t /\ t < 8000)
          /\ RecTier(sco.rec) = 3 <=> (6000 <= t /\ t < 7000)
          /\ RecTier(sco.rec) = 2 <=> (5000 <= t /\ t < 6000)
          /\ RecTier(sco.rec) = 1 <=> t < 5000
          /\ RecTier(sco.above) >= RecTier(sco.rec)

C16_Witness ==
    /\ sco.phase = "recommended" /\ "total" \in DOMAIN sco.score
    /\ sco.score["total"] = 7999
    /\ RecTier(sco.rec) = 4 /\ RecTier(sco.above) = 5

(* C17: the moat estimate of a score record is an integer in [0,10]: an    *)
(* explicit moat value rounded and clamped to [0,10] (15 gives 10, -3      *)
(* gives 0), else round((profitability + quality sub-scores)/20) clamped.  *)
C17_MoatClamped ==
    sco.phase = "scored" =>
      LET explicit == sco.metrics.moat_score
          sub == sco.out.subscores
          raw == IF explicit # None THEN RoundHalfEven(explicit, 100)
                 ELSE RoundHalfEven(sub.profitability + sub.quality, 2000)
      IN  /\ sco.out.moat_score \in 0..10
          /\ sco.out.moat_score
               = (IF raw < 0 THEN 0 ELSE IF raw > 10 THEN 10 ELSE raw)

(* C18: each sub-group returned by calculate() is the empty mapping        *)
(* exactly when a source sequence it requires is missing (profitability:   *)
(* income and balance; growth: two income statements; value: key metrics;  *)
(* quality: balance, cash flow and income; financial health: balance and   *)
(* income), and otherwise holds all of its keys.                           *)
C18_GroupsEmptyOrComplete ==
    (met.phase = "calculated" /\ ~met.out.raised) =>
      LET b == met.company_data
          m == met.out.metrics
          ni == Len(b.income_statements)
          nb == Len(b.balance_sheets)
          nc == Len(b.cash_flows)
          nk == Len(b.key_metrics)
      IN  /\ DOMAIN m.profitability =
               (IF ni >= 1 /\ nb >= 1
                  THEN {"net_margin", "roa", "roe", "gross_margin",
                        "operating_margin"}
                  ELSE {})
          /\ DOMAIN m.growth =
               (IF ni >= 2
                  THEN {"revenue_growth", "earnings_growth",
                        "revenue_cagr_5y"}
                  ELSE {})
          /\ DOMAIN m.value =
               (IF nk >= 1
                  THEN {"pe_ratio", "pb_ratio", "price_to_sales",
                        "ev_to_ebitda", "market_cap"}
                  ELSE {})
          /\ DOMAIN m.quality =
               (IF nb >= 1 /\ nc >= 1 /\ ni >= 1
                  THEN {"debt_to_equity", "debt_to_ebitda",
                        "cash_flow_to_net_income", "free_cash_flow"}
                  ELSE {})
          /\ DOMAIN m.financial_health =
               (IF nb >= 1 /\ ni >= 1
                  THEN {"current_ratio", "quick_ratio", "interest_coverage"}
                  ELSE {})

C18_Witness ==
    /\ met.phase = "calculated" /\ ~met.out.raised
    /\ Len(met.company_data.income_statements) = 1
    /\ Len(met.company_data.balance_sheets) >= 1
    /\ Len(met.company_data.cash_flows) = 0
    /\ DOMAIN met.out.metrics.growth = {}
    /\ DOMAIN met.out.metrics.quality = {}
    /\ DOMAIN met.out.metrics.profitability # {}
    /\ DOMAIN met.out.metrics.financial_health # {}

(* C19 as stated: every write() call that gets past ticker normalization   *)
(* emits exactly one promotion-log entry, the call that updates a ticker   *)
(* in place included.                                                      *)
C19_OneEntryEveryCall ==
    Called =>
      /\ Len(last.emitted) = 1
      /\ ~last.dry_run => log = Append(last.pre.log, last.emitted[1])

(* C19 amended: a completed write() call that gets past ticker             *)
(* normalization emits exactly one promotion-log entry unless its outcome  *)
(* is UPDATED, in which case it emits none; a live call issues as many     *)
(* log appends as it emits entries, a dry run none.                        *)
C19_OneEntryUnlessUpdated ==
    Called =>
      LET n == IF last.outcome = "UPDATED" THEN 0 ELSE 1
          appends == {k \in 1..Len(last.ops) : last.ops[k] = "appendLog"}
      IN  /\ Len(last.emitted) = n
          /\ Cardinality(appends) = (IF last.dry_run THEN 0 ELSE n)
          /\ Len(log) = Len(last.pre.log) + Cardinality(appends)

C19_Witness ==
    /\ last.outcome = "UPDATED" /\ ~last.dry_run
    /\ last.emitted = <<>> /\ log = last.pre.log
    /\ dash[last.row] # last.pre.dash[last.row]

(* C20: a write() whose ticker is absent, empty or white space fails at    *)
(* once with an error and issues no request to the ledger: no tab is       *)
(* looked up or created, no header written, column A not read, no row      *)
(* written, no log entry built or appended.                                *)
C20_EmptyTickerFailsFast ==
    LET t == last.results.ticker
    IN  ( /\ last.outcome # "NONE"
          /\ (t = NoTicker \/ \A i \in 1..Len(t) : t[i] = " ") ) =>
          /\ last.outcome = "ERROR"
          /\ last.reason = ReasonNoTicker
          /\ last.ops = <<>> /\ last.raised = ""
          /\ last.emitted = <<>> /\ last.lines = <<>>
          /\ Store = last.pre

C20_Witness ==
    /\ last.outcome = "ERROR"
    /\ last.results.ticker = <<" ", " ">>
    /\ PromoLogTab \notin tabs /\ ~header
    /\ last.ops = <<>>

(* C21: calculate() returns a metrics record for every bundle, whatever    *)
(* sequence is empty and whatever field of the latest statements is        *)
(* missing, zero or null; a zero or absent denominator gives ratio 0 and a *)
(* prior-period value of 0 gives growth 0.                                 *)
C21_CalculateTotal ==
    met.phase = "calculated" =>
      /\ ~met.out.raised
      /\ LET b == met.company_data
             m == met.out.metrics
             inc == b.income_statements
         IN  /\ (DOMAIN m.profitability # {}
                   /\ Get(inc[1], "revenue", 1) \in {0, None})
                  => m.profitability.net_margin = 0
                       /\ m.profitability.gross_margin = 0
             /\ (DOMAIN m.growth # {} /\ Get(inc[2], "revenue", 0) = 0)
                  => m.growth.revenue_growth = 0

\* the most points among the steps <<threshold, points>> that x exceeds
PointsAbove(x, steps) ==
    LET won == {steps[k][2] : k \in {j \in DOMAIN steps : x > steps[j][1]}}
    IN  IF won = {} THEN 0 ELSE CHOOSE p \in won : \A q \in won : q <= p

\* the most points among the steps <<threshold, points>> that x is below
PointsBelow(x, steps) ==
    LET won == {steps[k][2] : k \in {j \in DOMAIN steps : x < steps[j][1]}}
    IN  IF won = {} THEN 0 ELSE CHOOSE p \in won : \A q \in won : q <= p

\* the points of the band <<low, high, points>> with low <= x < high
PointsInBand(x, bands) ==
    LET hit == {k \in DOMAIN bands : bands[k][1] <= x /\ x < bands[k][2]}
    IN  IF hit = {} THEN 0 ELSE bands[CHOOSE k \in hit : TRUE][3]

GrowthSteps == << <<2000, 50>>, <<1000, 35>>, <<500, 20>>, <<0, 10>> >>

LadderSum(kind, g) ==
    CASE kind = "profitability" ->
           PointsAbove(Get(g, "net_margin", 0),
                       << <<2000, 30>>, <<1000, 20>>, <<500, 10>> >>)
           + PointsAbove(Get(g, "roe", 0),
                         << <<2000, 40>>, <<1500, 30>>, <<1000, 20>> >>)
           + PointsAbove(Get(g, "gross_margin", 0),
                         << <<5000, 30>>, <<3000, 20>>, <<2000, 10>> >>)
      [] kind = "growth" ->
           PointsAbove(Get(g, "revenue_growth", 0), GrowthSteps)
           + PointsAbove(Get(g, "earnings_growth", 0), GrowthSteps)
      [] kind = "value" ->
           PointsInBand(Get(g, "pe_ratio", 0),
                        << <<1, 1500, 50>>, <<1500, 2500, 35>>,
                           <<2500, 3500, 20>>, <<3500, Inf, 10>> >>)
           + PointsInBand(Get(g, "pb_ratio", 0),
                          << <<1, 200, 30>>, <<200, 400, 20>>,
                             <<400, 600, 10>> >>)
           + PointsInBand(Get(g, "price_to_sales", 0),
                          << <<1, 200, 20>>, <<200, 400, 10>> >>)
      [] kind = "quality" ->
           PointsBelow(Get(g, "debt_to_equity", 0),
                       << <<50, 40>>, <<100, 30>>, <<200, 15>> >>)
           + PointsAbove(Get(g, "cash_flow_to_net_income", 0),
                         << <<120, 40>>, <<100, 30>>, <<80, 20>> >>)
           + PointsAbove(Get(g, "free_cash_flow", 0), << <<0, 20>> >>)
      [] kind = "financial_health" ->
           PointsAbove(Get(g, "current_ratio", 0),
                       << <<200, 40>>, <<150, 30>>, <<100, 20>> >>)
           + PointsAbove(Get(g, "quick_ratio", 0),
                         << <<150, 30>>, <<100, 20>>, <<75, 10>> >>)
           + PointsAbove(Get(g, "interest_coverage", 0),
                         << <<1000, 30>>, <<500, 20>>, <<200, 10>> >>)

(* C22: each sub-score is the sum of the points its ratios earn on their   *)
(* ladders (budgets 30+40+30, 50+50, 50+30+20, 40+40+20, 40+30+30), lies   *)
(* in [0,100], is 0 for an empty group, and an infinite interest coverage  *)
(* earns the full 30 points.                                               *)
C22_LadderSums ==
    sco.phase = "subscored" =>
      /\ sco.sub \in 0..100
      /\ DOMAIN sco.group = {} => sco.sub = 0
      /\ DOMAIN sco.group # {} => sco.sub = LadderSum(sco.kind, sco.group)
      /\ ( sco.kind = "financial_health"
             /\ DOMAIN sco.group = {"interest_coverage"}
             /\ sco.group["interest_coverage"] = Inf ) => sco.sub = 30

C22_Witness ==
    /\ sco.phase = "subscored" /\ sco.kind = "financial_health"
    /\ DOMAIN sco.group = {"current_ratio", "quick_ratio",
                           "interest_coverage"}
    /\ sco.group["interest_coverage"] = Inf
    /\ sco.group["current_ratio"] = 201 /\ sco.group["quick_ratio"] = 151
    /\ sco.sub = 100


(* C23: the allow_append and dry_run of a /run request reach the write of  *)
(* its evaluation: with allow_append a new gate-passing ticker that finds  *)
(* a blank row is appended (PROMOTED or HIGH_PRIORITY), with dry_run no    *)
(* row or log write is made, and the log entry carries the run identifier  *)
(* of the evaluation.                                                      *)
C23_RequestFlagsReachWrite ==
    (srv.phase = "evaluated" /\ srv.main.wrote /\ last.raised = "") =>
      /\ ( /\ srv.request.allow_append
           /\ ~WasInBlock /\ GatePassed
           /\ FindFirstEmptyRow(ReadDashboardColumnA(last.pre.colA)) # None ) =>
            last.outcome \in {"PROMOTED", "HIGH_PRIORITY"}
      /\ srv.request.dry_run =>
            /\ OpsOf(last.ops) \cap MutatingOps = {}
            /\ Store = last.pre
      /\ \A k \in 1..Len(last.emitted) :
            last.emitted[k].run_id = srv.main.run_id

(* C26: main(ticker, "sheets") returns exit_code 0 and the sheet URL when  *)
(* the fetch, the metrics, the score and the ledger write all succeeded,   *)
(* whatever the artifact storage does or is configured to be; exit_code 1  *)
(* only when a step up to and including the ledger write failed.           *)
C26_SuccessAfterLedgerWrite ==
    srv.phase = "evaluated" =>
      LET written == /\ srv.fails = "none" /\ srv.main.wrote
                     /\ last.outcome \notin {"RAISED", "ERROR"}
      IN  /\ written => (srv.main.exit_code = 0 /\ srv.main.sheet_url)
          /\ srv.main.exit_code = 1 => ~written


\* the part of a prefix between its surrounding slashes
Core(s) ==
    LET inner == {i \in 1..Len(s) : s[i] # "/"}
    IN  IF inner = {} THEN <<>>
        ELSE SubSeq(s, CHOOSE i \in inner : \A j \in inner : i <= j,
                       CHOOSE i \in inner : \A j \in inner : j <= i)

BothPromoted ==
    \A p \in Procs :
        /\ runs.proc[p].pc = "done"
        /\ runs.proc[p].action \in {"PROMOTED", "HIGH_PRIORITY"}
        /\ \E k \in 1..Len(log) :
              /\ log[k].run_id = runs.proc[p].run_id
              /\ log[k].action = runs.proc[p].action

\* the ticker of process  p  has no row in the block
RowLost(p) == TickerRows(colA, runs.proc[p].ticker) = {}

\* a row holds the ticker of process  p  with the columns of process  o
RowMixed(p, o) ==
    \E i \in TickerRows(colA, runs.proc[p].ticker) :
        dash[i] = BuildDashboardRow(runs.proc[o].results, runs.proc[o].now)

(* C25: two write() calls that promote two different new tickers and do    *)
(* not overlap leave each ticker in a row of its own with its own          *)
(* dashboard columns; calls that overlap can both read the same first      *)
(* blank row, and then both log a promotion while the block holds one of   *)
(* the two tickers, or one ticker with the other's columns (the witness).  *)
C25_NoLostRowWithoutOverlap ==
    (BothPromoted /\ ~runs.overlapped) =>
        \A p \in Procs :
            /\ ~RowLost(p)
            /\ \A o \in Procs \ {p} : ~RowMixed(p, o)
            /\ \A i \in TickerRows(colA, runs.proc[p].ticker) :
                  dash[i] = BuildDashboardRow(runs.proc[p].results,
                                              runs.proc[p].now)

C25_Witness ==
    /\ BothPromoted /\ runs.overlapped
    /\ runs.proc[1].row = runs.proc[2].row
    /\ \E p \in Procs : RowLost(p)
    /\ \E p \in Procs : \E o \in Procs \ {p} : RowMixed(p, o)


\* the stage of write() that a request belongs to
Stage(op) ==
    CASE op \in {"get", "addSheet", "updateHeader"} -> 1
      [] op = "readA" -> 2
      [] op = "updateA" -> 3
      [] op = "updateEJ" -> 4
      [] op = "appendLog" -> 5

(* C27: the requests of one write() are made in the order ensure tabs and  *)
(* log header, read column A, write the ticker cell, write the dashboard   *)
(* columns, append the log entry; the log append is the last request, so a *)
(* persisted PROMOTED/HIGH_PRIORITY entry follows the completed row write  *)
(* of its ticker; when the log append fails after the row was written the  *)
(* row stands and the call raises.                                         *)
C27_LogAppendLast ==
    last.outcome \notin {"NONE", "ERROR"} =>
      LET ops == last.ops
          n == Len(ops)
      IN  /\ \A i, j \in 1..n : i < j => Stage(ops[i]) <= Stage(ops[j])
          /\ \A i \in 1..n : ops[i] = "appendLog" => i = n
          /\ \A i, j \in 1..n : (Stage(ops[i]) >= 2 /\ i # j) => ops[i] # ops[j]
          /\ \A k \in 1..Len(log) :
               log[k].action \in {"PROMOTED", "HIGH_PRIORITY"} =>
                 /\ n >= 3 /\ SubSeq(ops, n - 2, n)
                                = <<"updateA", "updateEJ", "appendLog">>
                 /\ \E i \in BlockRows :
                      /\ colA[i] = NormalizeTicker(log[k].ticker)
                      /\ Blank(last.pre.colA[i])
                      /\ dash[i] = BuildDashboardRow(last.results, log[k].ts)
          /\ (last.raised = "appendLog" /\ "updateA" \in OpsOf(ops)) =>
               /\ last.outcome = "RAISED"
               /\ log = last.pre.log
               /\ colA[last.twin.row] = LastTicker
               /\ dash[last.twin.row] = BuildDashboardRow(last.results, clock)

C27_Witness ==
    /\ last.raised = "appendLog" /\ last.outcome = "RAISED"
    /\ last.twin.outcome = "HIGH_PRIORITY"
    /\ last.ops[Len(last.ops)] = "updateEJ"
    /\ colA[last.twin.row] = LastTicker /\ log = <<>>

(* C29: when a request of write() before the log append fails (ensuring    *)
(* the tabs, reading column A, writing the ticker cell or the dashboard    *)
(* columns) the call raises and a promotion-log entry of the attempt is    *)
(* still appended.                                                         *)
C29_LogEntryOnFailure ==
    (last.raised \in {"get", "addSheet", "updateHeader", "readA", "updateA",
                      "updateEJ"}) =>
      /\ last.outcome = "RAISED"
      /\ Len(log) = Len(last.pre.log) + 1
      /\ NormalizeTicker(log[Len(log)].ticker) = LastTicker


\* the tickers that a column A holds
TickersOf(a) ==
    {NormalizeTicker(a[i]) : i \in BlockRows} \ {<<>>, HeaderToken}

(* C28: a write() leaves column A of every row that held a non-blank value *)
(* as it was; the update path changes only columns E-J of the row of the   *)
(* ticker, the append path only a row whose column A was blank, every      *)
(* other row is unchanged, and the set of tickers of the block only grows. *)
C28_RowsOnlyAdded ==
    Called =>
      /\ \A i \in BlockRows :
           ~Blank(last.pre.colA[i]) => colA[i] = last.pre.colA[i]
      /\ TickersOf(last.pre.colA) \subseteq TickersOf(colA)
      /\ LET touched == {i \in BlockRows : colA[i] # last.pre.colA[i]
                                             \/ dash[i] # last.pre.dash[i]}
         IN  CASE last.outcome = "UPDATED" ->
                    /\ colA = last.pre.colA
                    /\ touched \subseteq TickerRows(last.pre.colA, LastTicker)
                    /\ touched \subseteq {last.row}
               [] last.outcome \in {"PROMOTED", "HIGH_PRIORITY"} ->
                    /\ touched \subseteq {last.row}
                    /\ Blank(last.pre.colA[last.row])
                    /\ ~last.dry_run => colA[last.row] = LastTicker
               [] OTHER -> touched = {}

C28_Witness ==
    /\ clock >= 2 /\ last.outcome = "UPDATED" /\ ~last.dry_run
    /\ last.pre.colA[last.row] = <<"a", " ">>
    /\ colA[last.row] = <<"a", " ">>
    /\ dash[last.row] # last.pre.dash[last.row]
    /\ \E i \in BlockRows : i # last.row /\ colA[i] = <<"B">>

(* C30: a row whose column A holds the header word is not in the ticker    *)
(* to row mapping (nor is a blank cell), is never chosen as the first      *)
(* blank row and never written; a call for any other ticker of the block   *)
(* finds its row whatever the case and the surrounding white space of the  *)
(* cell and of the input.                                                  *)
C30_HeaderRowSkipped ==
    Called =>
      LET rows == ReadDashboardColumnA(last.pre.colA)
          map == BuildTickerRowMap(rows)
          headers == {i \in BlockRows :
                        NormalizeTicker(last.pre.colA[i]) = HeaderToken}
      IN  /\ HeaderToken \notin DOMAIN map /\ <<>> \notin DOMAIN map
          /\ \A t \in DOMAIN map : map[t] \notin headers
          /\ FindFirstEmptyRow(rows) \notin headers
          /\ \A i \in headers :
               /\ last.row # i
               /\ colA[i] = last.pre.colA[i] /\ dash[i] = last.pre.dash[i]
          /\ \A i \in BlockRows \ headers :
               ( /\ ~Blank(last.pre.colA[i])
                 /\ NormalizeTicker(last.pre.colA[i]) = LastTicker ) =>
                   /\ last.outcome = "UPDATED" /\ last.row = i
                   /\ map[LastTicker] = i

C30_Witness ==
    /\ Called /\ last.outcome = "UPDATED"
    /\ last.results.ticker = <<" ", "a">>
    /\ last.pre.colA[last.row] = <<"a", " ">>
    /\ \E i \in BlockRows :
         last.pre.colA[i] = <<"T", "i", "c", "k", "e", "r">>

====
